---- MODULE Spec2Model ----
(***************************************************************************)
(* A model of the bookmarkct web application.                              *)
(*                                                                         *)
(*   Spec      the in-memory rate limiter of POST /api/bookmarks           *)
(*             (src/app/api/bookmarks/route.ts: getClientIp, nowKeys,      *)
(*             enforceLimits) driven by rate-check calls and a UTC clock.  *)
(*   SpecPost  concurrent POST /api/bookmarks requests (the POST handler   *)
(*             of the same file), one step per stretch of code between two *)
(*             awaits, with the rate limiter called inside the handler.    *)
(*   SpecTweet one GET /api/tweet request (the tweet route: extractTweetId,*)
(*             expandUrls, looksLikeMostlyLink, resolveRedirect,           *)
(*             tryFetchArticleText, fetchThreadTweets, GET), one step per  *)
(*             answer of the network.                                      *)
(*                                                                         *)
(* Strings are sequences of one-character strings, so that trim and split  *)
(* are computed the way the code computes them.  Time is a number of       *)
(* seconds since the epoch; the calendar date y-m-d of a day is            *)
(* represented by the number of that day.                                  *)
(***************************************************************************)
EXTENDS Integers, Sequences, FiniteSets, TLC

\* a header that is absent (headers.get returns null), and one with value s
Absent == [ present |-> FALSE, value |-> << >> ]
Value(s) == [ present |-> TRUE, value |-> s ]

\* what enforceLimits returns for an accepted call (null in the code)
Granted == [ limit |-> "none", max |-> 0 ]

(***************************************************************************)
(* Bounds of the model.                                                    *)
(***************************************************************************)
\* the clock runs over the UTC days 0..MaxDay
MaxDay == 1
\* a request's sourceText has 1..MaxLen characters after trimming
MaxLen == 2
\* POST /api/bookmarks requests 1..MaxPosts are served, in any interleaving
MaxPosts == 2
\* a text given to stripHtmlToText has at most MaxHtml pieces
MaxHtml == 4
\* a page of the conversation search carries at most MaxPage posts
MaxPage == 2
\* thread assembly is answered at most MaxSearches page requests
MaxSearches == 2
MaxChain == 3

(***************************************************************************)
(* Strings.                                                                *)
(***************************************************************************)
IsSpace(c) == c \in { " ", "\t", "\n" }

RECURSIVE TrimStart(_)
TrimStart(s) ==
    IF s # <<>> /\ IsSpace(Head(s)) THEN TrimStart(Tail(s)) ELSE s

RECURSIVE TrimEnd(_)
TrimEnd(s) ==
    IF s # <<>> /\ IsSpace(s[Len(s)]) THEN TrimEnd(SubSeq(s, 1, Len(s) - 1)) ELSE s

\* String.prototype.trim
Trim(s) == TrimEnd(TrimStart(s))

\* s.split(",")[0]: the part of s before its first comma (all of s without one)
RECURSIVE SplitFirst(_)
SplitFirst(s) ==
    IF s = <<>> \/ Head(s) = "," THEN <<>> ELSE <<Head(s)>> \o SplitFirst(Tail(s))

(***************************************************************************)
(* Requests: the two headers the limiter reads.                            *)
(***************************************************************************)
Request(xff, realIp) == [ xff |-> xff, realIp |-> realIp ]

\* the requests the clients of one deployment send: three deployments, each
\* with clients of two identities
MainClients ==
    { Request(Absent, Absent),
      Request(Value(<<"a", ",", " ", "b">>), Value(<<" ">>)) }

OtherClientSets ==
    { { Request(Value(<<" ", ",", "a">>), Value(<<" ", "a", " ">>)),
        Request(Value(<<" ">>), Value(<<" ", "a", " ">>)) },
      { Request(Value(<<" ", "a", " ">>), Absent),
        Request(Value(<<" ">>), Value(<<" ">>)) } }

ClientSets == { MainClients } \cup OtherClientSets

Requests == UNION ClientSets

LOCAL_ID == <<"l", "o", "c", "a", "l">>

\* a header value v passes `v && v.trim().length > 0`
NonBlank(v) == v.present /\ v.value # << >> /\ Len(Trim(v.value)) > 0

\* mutant: X-Real-Ip is consulted before X-Forwarded-For
getClientIpRealIpFirst(request) ==
    IF NonBlank(request.realIp) THEN Trim(request.realIp.value)
    ELSE IF NonBlank(request.xff) THEN Trim(SplitFirst(request.xff.value))
    ELSE LOCAL_ID

getClientIp(request) ==
    IF NonBlank(request.xff) THEN Trim(SplitFirst(request.xff.value))
    ELSE IF NonBlank(request.realIp) THEN Trim(request.realIp.value)
    ELSE LOCAL_ID

\* every identity a request of the model can carry
Ids == { getClientIp(r) : r \in Requests }

(***************************************************************************)
(* The clock and nowKeys.                                                  *)
(***************************************************************************)
\* seconds of a day the clock visits: two instants of minute 00:00, the
\* next minute 00:01, and minute 00 of the next hour
DaySeconds == { 0, 30, 60, 3600 }

Instants == { d * 86400 + s : d \in 0..MaxDay, s \in DaySeconds }

getUTCDay(t)     == t \div 86400
getUTCHours(t)   == (t % 86400) \div 3600
getUTCMinutes(t) == (t % 3600) \div 60

\* mutant: the minute key leaves out the minutes
nowKeysSansMinutes(date) ==
    [ dayKey    |-> << getUTCDay(date) >>,
      minuteKey |-> << getUTCDay(date), getUTCHours(date) >> ]

nowKeys(date) ==
    [ dayKey    |-> << getUTCDay(date) >>,
      minuteKey |-> << getUTCDay(date), getUTCHours(date), getUTCMinutes(date) >> ]

(***************************************************************************)
(* State.                                                                  *)
(***************************************************************************)
VARIABLES
    RPM, DAILY, DAILY_CHARS,  \* the ceilings, read from the environment at load
    clients,                  \* the requests this deployment's clients send
    buckets,                  \* Map<string, Bucket>
    now,                      \* the wall clock (seconds)
    tally,                    \* per identity: its last call's instant, the calls and
                              \* characters accepted in the current UTC minute and day
                              \* (history)
    last,                     \* the last rate-check call (history)
    posts,                    \* the POST /api/bookmarks requests being served
    bookmarks,                \* the rows of the Bookmark table, in order of creation
    THREAD_MAX_TWEETS,        \* the cap of thread assembly, read from the environment
    tweet,                    \* the GET /api/tweet request being served
    markup,                   \* a text and the number of times stripHtmlToText
                              \* was applied to it
    cursor,                   \* the continuation token the search hands out next
    listing,                  \* the GET /api/bookmarks request being served
    chain,                    \* the storage and the event log of BookmarkCT, and
                              \* the number of createBookmark calls that did not
                              \* revert (history)
    tx,                       \* the last call of the contract (history)
    ui                        \* the page: its environment, the bookmarks it
                              \* shows, txStates, the handleSaveOnchain calls
                              \* that are suspended, and the transactions sent

config      == << RPM, DAILY, DAILY_CHARS, clients >>
limiterVars == << buckets, now, tally, last >>
postVars    == << posts, bookmarks >>
tweetVars   == << THREAD_MAX_TWEETS, tweet >>
otherVars   == << markup, cursor, listing, chain, tx, ui >>
vars        == << RPM, DAILY, DAILY_CHARS, clients, buckets, now, tally, last,
                  posts, bookmarks, THREAD_MAX_TWEETS, tweet, markup, cursor,
                  listing, chain, tx, ui >>

\* values envInt can give the three ceilings
RpmValues        == { 0, 2 }
DailyValues      == { 0, 3 }
DailyCharsValues == { 1, 3 }

(***************************************************************************)
(* enforceLimits.                                                          *)
(***************************************************************************)
MinuteMessage == [ limit |-> "minute", max |-> RPM ]
DayMessage    == [ limit |-> "day", max |-> DAILY ]
CharsMessage  == [ limit |-> "chars", max |-> DAILY_CHARS ]

\* mutant: a new minute also restarts the day's request count
ResetMinuteAndDayCount(existing, minuteKey) ==
    IF existing.minuteKey # minuteKey
    THEN [existing EXCEPT !.minuteKey = minuteKey, !.minuteCount = 0, !.dayCount = 0]
    ELSE existing

\* reset minute bucket when minute changes
ResetMinute(existing, minuteKey) ==
    IF existing.minuteKey # minuteKey
    THEN [existing EXCEPT !.minuteKey = minuteKey, !.minuteCount = 0]
    ELSE existing

\* mutant: a new day keeps the characters of the day before
ResetDayKeepingChars(existing, dayKey) ==
    IF existing.dayKey # dayKey
    THEN [existing EXCEPT !.dayKey = dayKey, !.dayCount = 0]
    ELSE existing

\* reset day bucket when day changes
ResetDay(existing, dayKey) ==
    IF existing.dayKey # dayKey
    THEN [existing EXCEPT !.dayKey = dayKey, !.dayCount = 0, !.dayChars = 0]
    ELSE existing

\* mutant: the daily ceilings are checked before the per-minute ceiling
CheckCeilingsDayFirst(existing, sourceTextLength) ==
    IF existing.dayCount + 1 > DAILY THEN DayMessage
    ELSE IF existing.dayChars + sourceTextLength > DAILY_CHARS THEN CharsMessage
    ELSE IF existing.minuteCount + 1 > RPM THEN MinuteMessage
    ELSE Granted

\* mutant: the counters are compared as they are, without the request
CheckCeilingsWithoutRequest(existing, sourceTextLength) ==
    IF existing.minuteCount > RPM THEN MinuteMessage
    ELSE IF existing.dayCount > DAILY THEN DayMessage
    ELSE IF existing.dayChars > DAILY_CHARS THEN CharsMessage
    ELSE Granted

\* the three ceilings in the order the code checks them; Granted: none violated
CheckCeilings(existing, sourceTextLength) ==
    IF existing.minuteCount + 1 > RPM THEN MinuteMessage
    ELSE IF existing.dayCount + 1 > DAILY THEN DayMessage
    ELSE IF existing.dayChars + sourceTextLength > DAILY_CHARS THEN CharsMessage
    ELSE Granted

\* mutant: a request counts as one character
IncrementCharsByOne(existing, sourceTextLength) ==
    [existing EXCEPT !.minuteCount = @ + 1,
                     !.dayCount = @ + 1,
                     !.dayChars = @ + 1]

\* mutant: an accepted request leaves the minute counter as it found it
IncrementMinuteUncounted(existing, sourceTextLength) ==
    [existing EXCEPT !.dayCount = @ + 1,
                     !.dayChars = @ + sourceTextLength]

Increment(existing, sourceTextLength) ==
    [existing EXCEPT !.minuteCount = @ + 1,
                     !.dayCount = @ + 1,
                     !.dayChars = @ + sourceTextLength]

\* mutant: the request that creates the bucket is not counted
NewBucketUncounted(keys, sourceTextLength) ==
    [ dayKey      |-> keys.dayKey,
      minuteKey   |-> keys.minuteKey,
      minuteCount |-> 0,
      dayCount    |-> 0,
      dayChars    |-> 0 ]

NewBucket(keys, sourceTextLength) ==
    [ dayKey      |-> keys.dayKey,
      minuteKey   |-> keys.minuteKey,
      minuteCount |-> 1,
      dayCount    |-> 1,
      dayChars    |-> sourceTextLength ]

\* mutant: the counters are incremented before the ceilings are checked
enforceLimitsIncrementFirst(bk, request, sourceTextLength, date) ==
    LET ip   == getClientIp(request)
        keys == nowKeys(date)
    IN  IF ip \notin DOMAIN bk
        THEN [ buckets |-> (ip :> NewBucket(keys, sourceTextLength)) @@ bk,
               result  |-> Granted ]
        ELSE LET existing == ResetDay(ResetMinute(bk[ip], keys.minuteKey), keys.dayKey)
                 err      == CheckCeilings(existing, sourceTextLength)
             IN  [ buckets |-> [bk EXCEPT ![ip] = Increment(existing, sourceTextLength)],
                   result  |-> err ]

\* enforceLimits on the bucket map bk at time date: the map it leaves and the
\* value it returns (Granted: null, else the rejection message).  `existing`
\* is the object held by the map, so the resets stay also when the call is
\* rejected.
enforceLimits(bk, request, sourceTextLength, date) ==
    LET ip   == getClientIp(request)
        keys == nowKeys(date)
    IN  IF ip \notin DOMAIN bk
        THEN [ buckets |-> (ip :> NewBucket(keys, sourceTextLength)) @@ bk,
               result  |-> Granted ]
        ELSE LET existing == ResetDay(ResetMinute(bk[ip], keys.minuteKey), keys.dayKey)
                 err      == CheckCeilings(existing, sourceTextLength)
             IN  IF err # Granted
                 THEN [ buckets |-> [bk EXCEPT ![ip] = existing], result |-> err ]
                 ELSE [ buckets |-> [bk EXCEPT ![ip] = Increment(existing, sourceTextLength)],
                        result  |-> Granted ]

(***************************************************************************)
(* History: per identity, the instant of its last rate-check call and what *)
(* was accepted from it in the clock's current UTC minute and UTC day,     *)
(* counted from the instants of the calls and not from the buckets.        *)
(***************************************************************************)
SameMinute(t1, t2) == t1 \div 60 = t2 \div 60
SameDay(t1, t2)    == t1 \div 86400 = t2 \div 86400

NoTally == [ at |-> -1, minute |-> 0, day |-> 0, chars |-> 0, found |-> { } ]

\* the tally carried over a move of the clock from t1 to t2
Carry(a, t1, t2) ==
    [ at     |-> a.at,
      minute |-> IF SameMinute(t1, t2) THEN a.minute ELSE 0,
      day    |-> IF SameDay(t1, t2) THEN a.day ELSE 0,
      chars  |-> IF SameDay(t1, t2) THEN a.chars ELSE 0,
      found  |-> IF SameMinute(t1, t2) THEN a.found ELSE { } ]

\* the tally after a call at instant t of n characters; an accepted call adds
\* the value of the minute counter it was accepted at to `found`
Count(a, t, n, granted, counter) ==
    IF granted
    THEN [ at     |-> t,
           minute |-> a.minute + 1,
           day    |-> a.day + 1,
           chars  |-> a.chars + n,
           found  |-> a.found \cup { counter } ]
    ELSE [ a EXCEPT !.at = t ]

\* where instant t lies from an identity's previous call at instant t0
Gap(t0, t) ==
    IF t0 < 0 THEN "first call"
    ELSE IF ~SameDay(t0, t) THEN "other day"
    ELSE IF ~SameMinute(t0, t) THEN "other minute"
    ELSE "same minute"

Range(f) == { f[x] : x \in DOMAIN f }

\* stands for the bucket of an identity that has none
NoBucket ==
    [ dayKey |-> << >>, minuteKey |-> << >>, minuteCount |-> 0, dayCount |-> 0, dayChars |-> 0 ]

BucketOf(bk, ip) == IF ip \in DOMAIN bk THEN bk[ip] ELSE NoBucket

Counters(b) ==
    [ minuteCount |-> b.minuteCount, dayCount |-> b.dayCount, dayChars |-> b.dayChars ]

NoCall == [ kind |-> "none" ]

(***************************************************************************)
(* The text of a request body: `lead` whitespace characters, `core`        *)
(* characters of which the first and the last are no whitespace, `trail`   *)
(* whitespace characters.                                                  *)
(***************************************************************************)
Text(lead, core, trail) == [ lead |-> lead, core |-> core, trail |-> trail ]

TextTrim(t)   == IF t.core = 0 THEN Text(0, 0, 0) ELSE Text(0, t.core, 0)
TextLength(t) == t.lead + t.core + t.trail

MAX_SOURCE_TEXT_LENGTH == 10000

\* body.sourceText: absent or no string, or a string
NotAString == [ isString |-> FALSE, text |-> Text(0, 0, 0) ]
String(t)  == [ isString |-> TRUE, text |-> t ]

SourceTexts ==
    { NotAString, String(Text(0, 0, 0)), String(Text(1, 0, 1)),
      String(Text(0, 1, 0)),
      String(Text(1, MAX_SOURCE_TEXT_LENGTH, 0)),
      String(Text(0, MAX_SOURCE_TEXT_LENGTH + 1, 0)) }

\* mutant: the string is not trimmed before it is measured
isNonEmptyStringUntrimmed(value) == value.isString /\ TextLength(value.text) > 0

isNonEmptyString(value) == value.isString /\ TextLength(TextTrim(value.text)) > 0

\* summarizeText's result for the (trimmed) output text of the completion
NoSummaryGenerated == "No summary generated."

\* mutant: the output of the model is returned as it is
SummaryOfOutput(out) == out

SummaryOf(out) == IF out = "" THEN NoSummaryGenerated ELSE out

\* what summarizeText returns when the model answers `out` (trimmed): "" for
\* a text that is empty after trimming, without asking the model
summarizeText(sourceText, out) ==
    IF TextTrim(sourceText).core = 0 THEN "" ELSE SummaryOf(out)

OutputTexts == { "", "- a summary" }

\* a POST request the server has not received yet
IdlePost ==
    [ pc         |-> "idle",
      request    |-> Request(Absent, Absent),
      read       |-> FALSE,
      body       |-> NotAString,
      sourceText |-> Text(0, 0, 0),
      summary    |-> "",
      status     |-> 0,
      reason     |-> Granted ]

\* the request answered with `status` (and the limiter's reason for a 429)
Responded(post, status, reason) ==
    [ post EXCEPT !.pc = "done", !.status = status, !.reason = reason ]

(***************************************************************************)
(* GET /api/tweet: the locator parser.                                     *)
(***************************************************************************)
Digits == { "0", "1", "2", "3", "4", "5", "6", "7", "8", "9" }

\* the number of digits s holds from position i on
RECURSIVE DigitRun(_, _)
DigitRun(s, i) ==
    IF i <= Len(s) /\ s[i] \in Digits THEN 1 + DigitRun(s, i + 1) ELSE 0

\* s holds the characters of lit at position i
LiteralAt(s, lit, i) ==
    /\ i + Len(lit) - 1 <= Len(s)
    /\ SubSeq(s, i, i + Len(lit) - 1) = lit

NoId == [ found |-> FALSE, id |-> << >> ]

\* s.match(/<lit>(\d{5,30})/)?.[1]: the digits, at most 30, that follow the
\* leftmost occurrence of lit that 5 digits or more follow
MatchDigitsAfter(s, lit) ==
    LET at == { i \in 1..Len(s) :
                  LiteralAt(s, lit, i) /\ DigitRun(s, i + Len(lit)) >= 5 }
    IN  IF at = { } THEN NoId
        ELSE LET i == CHOOSE j \in at : \A k \in at : j <= k
                 n == DigitRun(s, i + Len(lit))
             IN  [ found |-> TRUE,
                   id    |-> SubSeq(s, i + Len(lit),
                                    i + Len(lit) + (IF n > 30 THEN 30 ELSE n) - 1) ]

\* mutant: the input is not trimmed
extractTweetIdUntrimmed(input) ==
    LET s  == input
        m  == MatchDigitsAfter(s, <<"/", "s", "t", "a", "t", "u", "s", "/">>)
    IN  IF Len(s) >= 5 /\ Len(s) <= 30 /\ DigitRun(s, 1) = Len(s)
        THEN [ found |-> TRUE, id |-> s ]
        ELSE IF m.found THEN m
        ELSE NoId

extractTweetId(input) ==
    LET s  == Trim(input)
        m  == MatchDigitsAfter(s, <<"/", "s", "t", "a", "t", "u", "s", "/">>)
        m2 == MatchDigitsAfter(s, <<"/", "i", "/", "w", "e", "b",
                                    "/", "s", "t", "a", "t", "u", "s", "/">>)
    IN  IF Len(s) >= 5 /\ Len(s) <= 30 /\ DigitRun(s, 1) = Len(s)
        THEN [ found |-> TRUE, id |-> s ]
        ELSE IF m.found THEN m
        ELSE IF m2.found THEN m2
        ELSE NoId

\* n times the digit d
Repeat(d, n) == [ k \in 1..n |-> d ]

Status == << "/", "s", "t", "a", "t", "u", "s", "/" >>

\* values of the ?url= parameter
Locators ==
    { << >>,
      << " " >>,
      << "1", "2", "3", "4" >>,
      << "1", "2", "3", "4", "5" >>,
      Repeat("7", 31),
      Status \o Repeat("7", 31),
      Status \o << "1", "2" >> \o Status \o Repeat("5", 5) \o Status \o Repeat("6", 6),
      << " ", "1", "2", "3", "4", "5", " " >>,
      << "x", "/", "s", "t", "a", "t", "u", "s", "/", "9", "8", "7", "6", "5", "?" >>,
      << "x", "/", "s", "t", "a", "t", "u", "s", "/", "9", "8", "7", "6" >>,
      << "/", "i", "/", "w", "e", "b", "/", "s", "t", "a", "t", "u", "s", "/",
         "5", "4", "3", "2", "1", "0" >> }

(***************************************************************************)
(* GET /api/tweet: texts and links.  A post's text is a sequence of items  *)
(* separated by single spaces: a URL (a match of https?:\/\/[^\s)]+), or a *)
(* run of `len` characters of prose that holds no URL and neither starts   *)
(* nor ends with whitespace.                                               *)
(***************************************************************************)
Url(u)   == [ kind |-> "url", url |-> u, len |-> 0 ]
Prose(n) == [ kind |-> "prose", url |-> "", len |-> n ]

ShortUrl     == "https://t.co/1"
ArticleUrl   == "https://blog.example/a"
PlatformUrl  == "https://x.com/u/status/98765"
SubdomainUrl == "https://mobile.twitter.com/u"
LookalikeUrl == "https://vox.com/a"
UnparsedUrl  == "http://["

\* entities.urls: absent or no array, or an array of entries of which `url`
\* and `expanded_url` may be no strings
NoEntities == [ isArray |-> FALSE, urls |-> << >> ]
Entities(urls) == [ isArray |-> TRUE, urls |-> urls ]
Entry(short, expanded) ==
    [ hasUrl |-> TRUE, url |-> short, hasExpanded |-> TRUE, expanded_url |-> expanded ]
EntryWithoutExpansion(short) ==
    [ hasUrl |-> TRUE, url |-> short, hasExpanded |-> FALSE, expanded_url |-> "" ]

\* out.split(short).join(expanded)
ReplaceUrl(text, short, expanded) ==
    [ i \in 1..Len(text) |->
        IF text[i].kind = "url" /\ text[i].url = short THEN Url(expanded) ELSE text[i] ]

RECURSIVE ExpandWith(_, _)
ExpandWith(out, urls) ==
    IF urls = << >> THEN out
    ELSE LET u == Head(urls)
         IN  ExpandWith(IF u.hasUrl /\ u.url # "" /\ u.hasExpanded /\ u.expanded_url # ""
                        THEN ReplaceUrl(out, u.url, u.expanded_url)
                        ELSE out,
                        Tail(urls))

expandUrls(text, entities) ==
    IF ~entities.isArray THEN text ELSE ExpandWith(text, entities.urls)

UrlsOf(text) == SelectSeq(text, LAMBDA item : item.kind = "url")

getFirstHttpUrl(text) ==
    IF UrlsOf(text) = << >> THEN "" ELSE Head(UrlsOf(text)).url

\* the length of the text with its URLs removed, whitespace runs collapsed
\* to one space, and trimmed
RECURSIVE ProseLength(_)
ProseLength(text) ==
    IF text = << >> THEN 0
    ELSE LET rest == ProseLength(Tail(text))
         IN  IF Head(text).kind = "url" THEN rest
             ELSE Head(text).len + (IF rest > 0 THEN 1 + rest ELSE 0)

MOSTLY_LINK_MAX_PROSE == 40

looksLikeMostlyLink(text) ==
    /\ text # << >>
    /\ UrlsOf(text) # << >>
    /\ ProseLength(text) <= MOSTLY_LINK_MAX_PROSE

(***************************************************************************)
(* GET /api/tweet: the answers of the network.                             *)
(***************************************************************************)
\* what fetchTweetById gets: data.data of a successful answer
Post(text, entities, conversation, author) ==
    [ text |-> text, entities |-> entities,
      conversation_id |-> conversation, author_id |-> author ]

Posts ==
    { Post(<< Prose(12) >>, NoEntities, TRUE, TRUE),
      Post(<< Url(ShortUrl) >>, Entities(<< Entry(ShortUrl, ArticleUrl) >>), TRUE, TRUE),
      Post(<< Url(ShortUrl) >>, Entities(<< Entry(ShortUrl, ArticleUrl) >>), TRUE, FALSE),
      Post(<< Prose(40), Url(ShortUrl) >>, Entities(<< Entry(ShortUrl, PlatformUrl) >>),
           TRUE, TRUE),
      Post(<< Prose(20), Url(ArticleUrl), Prose(20) >>,
           Entities(<< EntryWithoutExpansion(ArticleUrl) >>), TRUE, TRUE),
      Post(<< Url(UnparsedUrl) >>, NoEntities, FALSE, TRUE) }

\* res.url of the redirect GET ("" when the answer carries none)
FinalUrls == { "", ArticleUrl, PlatformUrl, SubdomainUrl, LookalikeUrl }

\* new URL(u).hostname, for the URLs that parse
Hostname(u) ==
    CASE u = ShortUrl    -> << "t", ".", "c", "o" >>
      [] u = ArticleUrl  -> << "b", "l", "o", "g", ".", "e", "x", "a", "m", "p", "l", "e" >>
      [] u = PlatformUrl -> << "x", ".", "c", "o", "m" >>
      [] u = SubdomainUrl -> << "m", "o", "b", "i", "l", "e", ".",
                                "t", "w", "i", "t", "t", "e", "r", ".", "c", "o", "m" >>
      [] u = LookalikeUrl -> << "v", "o", "x", ".", "c", "o", "m" >>

Parses(u) == u \in { ShortUrl, ArticleUrl, PlatformUrl, SubdomainUrl, LookalikeUrl }

EndsWith(s, suffix) ==
    /\ Len(suffix) <= Len(s)
    /\ SubSeq(s, Len(s) - Len(suffix) + 1, Len(s)) = suffix

\* hostname.replace(/^www\./, "")
StripWww(h) ==
    IF LiteralAt(h, << "w", "w", "w", "." >>, 1) THEN SubSeq(h, 5, Len(h)) ELSE h

\* tryFetchArticleText gives up before it fetches anything
ArticleRefused(resolvedUrl) ==
    \/ ~Parses(resolvedUrl)
    \/ LET host == StripWww(Hostname(resolvedUrl))
       IN  \/ EndsWith(host, << "x", ".", "c", "o", "m" >>)
           \/ EndsWith(host, << "t", "w", "i", "t", "t", "e", "r", ".", "c", "o", "m" >>)

ARTICLE_MIN_LENGTH == 600
ARTICLE_MAX_LENGTH == 30000

\* the answer to the article GET: the fetch or the reading of the body may
\* throw; `html` says that its content-type holds text/html, and `length` is
\* the length of stripHtmlToText(html)
Page(throws, ok, html, length) ==
    [ throws |-> throws, ok |-> ok, html |-> html, length |-> length ]

Pages ==
    { Page(TRUE, TRUE, TRUE, 0),
      Page(FALSE, FALSE, TRUE, ARTICLE_MIN_LENGTH),
      Page(FALSE, TRUE, FALSE, ARTICLE_MIN_LENGTH),
      Page(FALSE, TRUE, TRUE, ARTICLE_MIN_LENGTH - 1),
      Page(FALSE, TRUE, TRUE, ARTICLE_MIN_LENGTH),
      Page(FALSE, TRUE, TRUE, ARTICLE_MAX_LENGTH + 1) }

\* no answer to the article GET yet
NoPage == Page(FALSE, FALSE, FALSE, 0)

\* an article text of `length` characters, or null
NoArticle == [ isNull |-> TRUE, length |-> 0 ]
Article(length) == [ isNull |-> FALSE, length |-> length ]

\* mutant: a long text is not cut
ArticleTextOfUncut(page) ==
    IF page.throws \/ ~page.ok \/ ~page.html THEN NoArticle
    ELSE IF page.length < ARTICLE_MIN_LENGTH THEN NoArticle
    ELSE Article(page.length)

\* mutant: the status and the content-type of the answer are not looked at
ArticleTextOfAnyAnswer(page) ==
    IF page.throws THEN NoArticle
    ELSE IF page.length < ARTICLE_MIN_LENGTH THEN NoArticle
    ELSE Article(IF page.length > ARTICLE_MAX_LENGTH THEN ARTICLE_MAX_LENGTH ELSE page.length)

\* what tryFetchArticleText returns for the answer `page`
ArticleTextOf(page) ==
    IF page.throws \/ ~page.ok \/ ~page.html THEN NoArticle
    ELSE IF page.length < ARTICLE_MIN_LENGTH THEN NoArticle
    ELSE Article(IF page.length > ARTICLE_MAX_LENGTH THEN ARTICLE_MAX_LENGTH ELSE page.length)

\* `articleText ? ... : ...`
Truthy(articleText) == ~articleText.isNull /\ articleText.length > 0

\* an entry of a page of the conversation search: `id` 0 stands for a missing
\* id, `at` 0 for a missing created_at
Item(id, hasText, at) == [ id |-> id, hasText |-> hasText, at |-> at ]

SearchItems == { Item(1, TRUE, 2), Item(2, TRUE, 0),
                 Item(0, TRUE, 3), Item(4, FALSE, 3) }

RECURSIVE SeqsUpTo(_, _)
SeqsUpTo(S, n) ==
    IF n = 0 THEN { << >> }
    ELSE LET shorter == SeqsUpTo(S, n - 1)
         IN  shorter \cup { Append(q, x) : q \in shorter, x \in S }

\* the pages the search answers with when asked for at most `limit` posts
\* (the search collaborator returns no more posts than the page size asked)
SearchPages(limit) ==
    [ data : SeqsUpTo(SearchItems, IF limit < MaxPage THEN limit ELSE MaxPage),
      next_token : BOOLEAN ]

\* the entries of a page that fetchThreadTweets keeps
Kept(data) == SelectSeq(data, LAMBDA t : t.id # 0 /\ t.hasText)

\* items.sort((a, b) => ta - tb): a stable sort by creation time
RECURSIVE InsertByTime(_, _)
InsertByTime(sorted, x) ==
    IF sorted = << >> THEN << x >>
    ELSE IF Head(sorted).at <= x.at
         THEN << Head(sorted) >> \o InsertByTime(Tail(sorted), x)
         ELSE << x >> \o sorted

\* mutant: the items stay in the order of their arrival
SortByArrival(items) == items

RECURSIVE SortByTime(_)
SortByTime(items) ==
    IF items = << >> THEN << >>
    ELSE InsertByTime(SortByTime(SubSeq(items, 1, Len(items) - 1)), items[Len(items)])

\* items.filter(x => first occurrence of x.id)
RECURSIVE Dedupe(_, _)
Dedupe(items, seen) ==
    IF items = << >> THEN << >>
    ELSE IF Head(items).id \in seen THEN Dedupe(Tail(items), seen)
    ELSE << Head(items) >> \o Dedupe(Tail(items), seen \cup { Head(items).id })

\* what fetchThreadTweets returns for the items it collected
ThreadOf(items) == Dedupe(SortByTime(items), { })

(***************************************************************************)
(* GET /api/tweet: the document.                                           *)
(***************************************************************************)
\* the `text` of the answer: where it is taken from, and what it is
PostText(expandedText) ==
    [ from |-> "post", text |-> expandedText, thread |-> << >>, length |-> 0 ]
ThreadText(threadTweets) ==
    [ from |-> "thread", text |-> << >>, thread |-> threadTweets, length |-> 0 ]
ArticleText(articleText) ==
    [ from |-> "article", text |-> << >>, thread |-> << >>, length |-> articleText.length ]

\* mutant: a thread is ranked above an article
TextKindThreadFirst(articleText, includeThread, threadCount, expandedText) ==
    IF includeThread /\ threadCount > 0 THEN "thread"
    ELSE IF Truthy(articleText) THEN "article"
    ELSE IF looksLikeMostlyLink(expandedText) THEN "link"
    ELSE "tweet"

TextKind(articleText, includeThread, threadCount, expandedText) ==
    IF Truthy(articleText) THEN "article"
    ELSE IF includeThread /\ threadCount > 0 THEN "thread"
    ELSE IF looksLikeMostlyLink(expandedText) THEN "link"
    ELSE "tweet"

NoDocument ==
    [ text |-> PostText(<< >>), textKind |-> "", resolvedUrl |-> "", threadCount |-> 0 ]

\* mutant: the thread text is returned although an article text was extracted
DocumentThreadTextFirst(t) ==
    LET threadTweets == IF t.threadRan THEN ThreadOf(t.items) ELSE << >>
        threadCount  == Len(threadTweets)
    IN  [ text        |-> IF threadCount > 0 THEN ThreadText(threadTweets)
                          ELSE IF Truthy(t.articleText) THEN ArticleText(t.articleText)
                          ELSE PostText(t.expandedText),
          textKind    |-> TextKind(t.articleText, t.includeThread, threadCount,
                                   t.expandedText),
          resolvedUrl |-> t.resolvedUrl,
          threadCount |-> threadCount ]

\* NextResponse.json({ ok: true, ... }) of GET (threadCount 0 stands for null,
\* resolvedUrl "" for null)
Document(t) ==
    LET threadTweets == IF t.threadRan THEN ThreadOf(t.items) ELSE << >>
        threadCount  == Len(threadTweets)
    IN  [ text        |-> IF Truthy(t.articleText) THEN ArticleText(t.articleText)
                          ELSE IF threadCount > 0 THEN ThreadText(threadTweets)
                          ELSE PostText(t.expandedText),
          textKind    |-> TextKind(t.articleText, t.includeThread, threadCount,
                                   t.expandedText),
          resolvedUrl |-> t.resolvedUrl,
          threadCount |-> threadCount ]

\* a GET /api/tweet request the server has not received yet
IdleTweet ==
    [ pc            |-> "idle",
      url           |-> << >>,
      tweetId       |-> NoId,
      page          |-> NoPage,
      limit         |-> 0,
      nextToken     |-> FALSE,
      upstream      |-> 0,
      includeThread |-> FALSE,
      expandedText  |-> << >>,
      conversation  |-> FALSE,
      author        |-> FALSE,
      redirected    |-> "",
      resolvedUrl   |-> "",
      fetched       |-> "",
      articleText   |-> NoArticle,
      threadRan     |-> FALSE,
      items         |-> << >>,
      requests      |-> << >>,
      status        |-> 0,
      document      |-> NoDocument ]

(***************************************************************************)
(* stripHtmlToText.  A text is a sequence of pieces: a piece is one        *)
(* character ("a" stands for any other character) or a run of characters   *)
(* that the regular expressions match as a whole: the names "script",      *)
(* "/script", "style", "/style", "/p", the comment marks "!--" and "--",   *)
(* and the entity names that follow "&".                                   *)
(***************************************************************************)
StartsWith(s, lit) == Len(lit) <= Len(s) /\ SubSeq(s, 1, Len(lit)) = lit

\* the pieces that start with a word character (no \b before them)
WordPieces == { "a", "script", "style", "amp;", "lt;", "gt;", "nbsp;", "quot;" }

\* the least position from `from` on at which s holds lit, 0 if there is none
FirstAt(s, lit, from) ==
    LET at == { i \in from..Len(s) : StartsWith(SubSeq(s, i, Len(s)), lit) }
    IN  IF at = { } THEN 0 ELSE CHOOSE i \in at : \A j \in at : i <= j

\* out.replace(/<name\b ... <\/name>/gi, " "): from "<name" to the first
\* "</name>" after it
RECURSIVE StripBlocks(_, _, _)
StripBlocks(s, open, close) ==
    IF s = << >> THEN << >>
    ELSE LET end == FirstAt(s, << "<", close, ">" >>, 3)
         IN  IF /\ StartsWith(s, << "<", open >>)
                /\ end # 0
                /\ s[3] \notin WordPieces
             THEN << " " >> \o StripBlocks(SubSeq(s, end + 3, Len(s)), open, close)
             ELSE << Head(s) >> \o StripBlocks(Tail(s), open, close)

\* out.replace(/<!--[\s\S]*?-->/g, " ")
RECURSIVE StripComments(_)
StripComments(s) ==
    IF s = << >> THEN << >>
    ELSE LET end == FirstAt(s, << "--", ">" >>, 3)
         IN  IF StartsWith(s, << "<", "!--" >>) /\ end # 0
             THEN << " " >> \o StripComments(SubSeq(s, end + 2, Len(s)))
             ELSE << Head(s) >> \o StripComments(Tail(s))

\* out.replace(/<\/(p|div|br|li|h1|...|h6)>/gi, "\n")
RECURSIVE BreakBlocks(_)
BreakBlocks(s) ==
    IF s = << >> THEN << >>
    ELSE IF StartsWith(s, << "<", "/p", ">" >>)
         THEN << "\n" >> \o BreakBlocks(SubSeq(s, 4, Len(s)))
         ELSE << Head(s) >> \o BreakBlocks(Tail(s))

\* out.replace(/<[^>]+>/g, " ")
RECURSIVE StripTags(_)
StripTags(s) ==
    IF s = << >> THEN << >>
    ELSE LET end == FirstAt(s, << ">" >>, 2)
         IN  IF Head(s) = "<" /\ end > 2
             THEN << " " >> \o StripTags(SubSeq(s, end + 1, Len(s)))
             ELSE << Head(s) >> \o StripTags(Tail(s))

\* out.replace(/&name/gi, char)
RECURSIVE Decode(_, _, _)
Decode(s, name, char) ==
    IF s = << >> THEN << >>
    ELSE IF StartsWith(s, << "&", name >>)
         THEN << char >> \o Decode(SubSeq(s, 3, Len(s)), name, char)
         ELSE << Head(s) >> \o Decode(Tail(s), name, char)

\* the six replacements of entities, in the order of the code
DecodeEntities(s) ==
    Decode(Decode(Decode(Decode(Decode(Decode(s,
        "nbsp;", " "), "amp;", "&"), "quot;", "\""), "#39;", "'"), "lt;", "<"), "gt;", ">")

Blank(c) == c \in { " ", "\t" }

\* the number of spaces and tabs s starts with
RECURSIVE BlankRun(_)
BlankRun(s) == IF s # << >> /\ Blank(Head(s)) THEN 1 + BlankRun(Tail(s)) ELSE 0

\* the number of newlines s starts with
RECURSIVE NewlineRun(_)
NewlineRun(s) == IF s # << >> /\ Head(s) = "\n" THEN 1 + NewlineRun(Tail(s)) ELSE 0

\* out.replace(/[ \t]+\n/g, "\n")
RECURSIVE StripBlanksBeforeNewline(_)
StripBlanksBeforeNewline(s) ==
    IF s = << >> THEN << >>
    ELSE LET n == BlankRun(s)
         IN  IF n > 0 /\ n < Len(s) /\ s[n + 1] = "\n"
             THEN << "\n" >> \o StripBlanksBeforeNewline(SubSeq(s, n + 2, Len(s)))
             ELSE IF n > 0
             THEN SubSeq(s, 1, n) \o StripBlanksBeforeNewline(SubSeq(s, n + 1, Len(s)))
             ELSE << Head(s) >> \o StripBlanksBeforeNewline(Tail(s))

\* out.replace(/\n{3,}/g, "\n\n")
RECURSIVE CollapseNewlines(_)
CollapseNewlines(s) ==
    IF s = << >> THEN << >>
    ELSE LET n == NewlineRun(s)
         IN  IF n >= 3
             THEN << "\n", "\n" >> \o CollapseNewlines(SubSeq(s, n + 1, Len(s)))
             ELSE IF n > 0
             THEN SubSeq(s, 1, n) \o CollapseNewlines(SubSeq(s, n + 1, Len(s)))
             ELSE << Head(s) >> \o CollapseNewlines(Tail(s))

\* out.replace(/[ \t]{2,}/g, " ")
RECURSIVE CollapseBlanks(_)
CollapseBlanks(s) ==
    IF s = << >> THEN << >>
    ELSE LET n == BlankRun(s)
         IN  IF n >= 2
             THEN << " " >> \o CollapseBlanks(SubSeq(s, n + 1, Len(s)))
             ELSE << Head(s) >> \o CollapseBlanks(Tail(s))

\* mutant: the runs of blanks are left as they are
stripHtmlToTextKeepingBlanks(h) ==
    Trim(CollapseNewlines(StripBlanksBeforeNewline(DecodeEntities(
        StripTags(BreakBlocks(StripComments(
            StripBlocks(StripBlocks(h, "script", "/script"), "style", "/style"))))))))

stripHtmlToText(h) ==
    Trim(CollapseBlanks(CollapseNewlines(StripBlanksBeforeNewline(DecodeEntities(
        StripTags(BreakBlocks(StripComments(
            StripBlocks(StripBlocks(h, "script", "/script"), "style", "/style")))))))))

\* the characters of texts without markup
PlainPieces == { "a", " ", "\t", "\n", "&", "amp;", "lt;", "<", ">" }

\* pages with markup
HtmlSamples ==
    { << "<", "script", ">", "a", "<", "a", "<", "/script", ">", "a" >>,
      << "<", "script", "a", "<", "/script", ">" >>,
      << "<", "style", " ", "a", ">", "<", "/style", ">", "<", "/style", ">" >>,
      << "a", "<", "!--", "a", "--", ">", "a", "--", ">" >>,
      << "<", "a", ">", "a", "<", "/p", ">", "<", "/p", ">", " ", "<", "/p", ">", "a" >>,
      << "a", "&", "nbsp;", "&", "quot;", "a", "&", "gt;" >> }

NoHtml == [ input |-> << >>, text |-> << >>, passes |-> 0 ]

(***************************************************************************)
(* The clock and the rate-check call.                                      *)
(***************************************************************************)
\* time passes: the clock moves to a later instant of T
Tick(T) ==
    /\ \E t \in T :
          /\ t > now
          /\ now' = t
          /\ tally' = [ i \in Ids |-> Carry(tally[i], now, t) ]
    /\ last' = NoCall
    /\ UNCHANGED << config, otherVars, buckets >>

\* enforceLimits(request, n) is called now
LimiterCall(request, n) ==
    LET ip == getClientIp(request)
        r  == enforceLimits(buckets, request, n, now)
    IN  /\ buckets' = r.buckets
        /\ tally' = [tally EXCEPT ![ip] = Count(@, now, n, r.result = Granted,
                                                r.buckets[ip].minuteCount - 1)]
        /\ last' = [ kind    |-> "call",
                     request |-> request,
                     n       |-> n,
                     gap     |-> Gap(tally[ip].at, now),
                     before  |-> Counters(BucketOf(buckets, ip)),
                     result  |-> r.result ]
        /\ UNCHANGED << config, otherVars, now >>

(***************************************************************************)
(* The rate limiter driven by calls and the clock.                         *)
(***************************************************************************)
InitLimiter ==
    /\ buckets = << >>
    /\ now = 0
    /\ tally = [ i \in Ids |-> NoTally ]
    /\ last = NoCall

InitPosts ==
    /\ posts = [ p \in 1..MaxPosts |-> IdlePost ]
    /\ bookmarks = << >>

InitTweet ==
    /\ tweet = IdleTweet

(***************************************************************************)
(* BookmarkCT.  A string is a sequence of runs of UTF-16 code units of the *)
(* Basic Multilingual Plane, each run of `units` code units that take      *)
(* `bytes` bytes each in UTF-8.                                            *)
(***************************************************************************)
Run(units, bytes) == [ units |-> units, bytes |-> bytes ]

\* bytes(s).length
RECURSIVE Utf8Length(_)
Utf8Length(s) ==
    IF s = << >> THEN 0 ELSE Head(s).units * Head(s).bytes + Utf8Length(Tail(s))

\* keccak256 of a string (no two strings of the model collide)
keccak256(s) == [ of |-> s ]

PREVIEW_MAX_BYTES == 200

NoRow ==
    [ owner |-> "", sourceUrl |-> "", summaryHash |-> keccak256(<< >>),
      summaryPreview |-> << >>, createdAt |-> 0 ]

\* the contract after deployment, at block time 0
NewChain == [ bookmarks |-> << >>, events |-> << >>, created |-> 0, timestamp |-> 0 ]

NoTx ==
    [ kind |-> "none", sender |-> "", summaryPreview |-> << >>, id |-> 0,
      reverted |-> FALSE, row |-> NoRow, count |-> 0 ]

\* mutant: the length of the preview is not required
createBookmarkUnchecked(c, sender, sourceUrl, summaryHash, summaryPreview, timestamp) ==
    LET newBookmark == [ owner          |-> sender,
                         sourceUrl      |-> sourceUrl,
                         summaryHash    |-> summaryHash,
                         summaryPreview |-> summaryPreview,
                         createdAt      |-> timestamp ]
    IN  [ reverted |-> FALSE,
          chain    |-> [ bookmarks |-> Append(c.bookmarks, newBookmark),
                         events    |-> Append(c.events,
                                              [ id |-> Len(c.bookmarks) ] @@ newBookmark),
                         created   |-> c.created + 1,
                         timestamp |-> timestamp ] ]

\* createBookmark called by `sender` in a block of time `timestamp`: whether
\* it reverts, and the contract it leaves (ids count from 0)
createBookmark(c, sender, sourceUrl, summaryHash, summaryPreview, timestamp) ==
    IF Utf8Length(summaryPreview) > PREVIEW_MAX_BYTES
    THEN [ reverted |-> TRUE, chain |-> [ c EXCEPT !.timestamp = timestamp ] ]
    ELSE LET newBookmark == [ owner          |-> sender,
                              sourceUrl      |-> sourceUrl,
                              summaryHash    |-> summaryHash,
                              summaryPreview |-> summaryPreview,
                              createdAt      |-> timestamp ]
         IN  [ reverted |-> FALSE,
               chain    |-> [ bookmarks |-> Append(c.bookmarks, newBookmark),
                              events    |-> Append(c.events,
                                                   [ id |-> Len(c.bookmarks) ] @@ newBookmark),
                              created   |-> c.created + 1,
                              timestamp |-> timestamp ] ]

\* getBookmark(id): whether it reverts, and the bookmark it returns
getBookmark(c, id) ==
    IF id < Len(c.bookmarks)
    THEN [ reverted |-> FALSE, row |-> c.bookmarks[id + 1] ]
    ELSE [ reverted |-> TRUE, row |-> NoRow ]

count(c) == Len(c.bookmarks)

Senders == { "0xa", "0xb" }

\* previews of 0, 200 and 201 bytes, and one of 67 code units and 201 bytes
Previews == { << >>, << Run(200, 1) >>, << Run(201, 1) >>, << Run(67, 3) >> }

\* the block times a transaction can be included at
BlockTimes(c) == { t \in { c.timestamp, c.timestamp + 1 } : t <= MaxChain }

\* a createBookmark transaction is included in a block
CreateBookmark ==
    /\ Len(chain.bookmarks) < MaxChain
    /\ \E sender \in Senders, summaryPreview \in Previews, t \in BlockTimes(chain) :
          LET r == createBookmark(chain, sender, "", keccak256(summaryPreview),
                                  summaryPreview, t)
          IN  /\ chain' = r.chain
              /\ tx' = [ NoTx EXCEPT !.kind = "createBookmark", !.sender = sender,
                                      !.summaryPreview = summaryPreview,
                                      !.reverted = r.reverted ]
    /\ UNCHANGED << config, ui, markup, cursor, listing, limiterVars, postVars, tweetVars >>

\* getBookmark is called
GetBookmark ==
    /\ \E id \in 0..MaxChain :
          LET r == getBookmark(chain, id)
          IN  tx' = [ NoTx EXCEPT !.kind = "getBookmark", !.id = id,
                                  !.reverted = r.reverted, !.row = r.row ]
    /\ UNCHANGED << config, ui, markup, cursor, listing, chain, limiterVars, postVars,
                    tweetVars >>

\* count is called
CallCount ==
    /\ tx' = [ NoTx EXCEPT !.kind = "count", !.count = count(chain) ]
    /\ UNCHANGED << config, ui, markup, cursor, listing, chain, limiterVars, postVars,
                    tweetVars >>

(***************************************************************************)
(* The page: handleSaveOnchain and the Save button.  The handler is        *)
(* suspended at `await writeContractAsync(...)` and at `await              *)
(* publicClient.waitForTransactionReceipt(...)`; every call of setTxStates *)
(* is a change of txStates.  The transactions of the one connected wallet  *)
(* are included in the order they were sent (their nonces).                *)
(***************************************************************************)
MAX_SUMMARY_PREVIEW == 200

\* s.slice(0, n): the first n code units
RECURSIVE Slice(_, _)
Slice(s, n) ==
    IF s = << >> \/ n <= 0 THEN << >>
    ELSE IF Head(s).units <= n
         THEN << Head(s) >> \o Slice(Tail(s), n - Head(s).units)
         ELSE << Run(n, Head(s).bytes) >>

\* bookmark.summary.slice(0, MAX_SUMMARY_PREVIEW)
PreviewOf(summary) == Slice(summary, MAX_SUMMARY_PREVIEW)

\* the ids of the bookmarks the page shows
Saved == { 1, 2 }

\* stored summaries: "No summary generated.", 250 characters of ASCII, and a
\* bullet (3 bytes) followed by 220 characters of ASCII
Summaries == { << Run(21, 1) >>, << Run(250, 1) >>, << Run(1, 3), Run(220, 1) >> }

Environment(isConnected, isContractConfigured, isOnExpectedChain, publicClient) ==
    [ isConnected |-> isConnected, isContractConfigured |-> isContractConfigured,
      isOnExpectedChain |-> isOnExpectedChain, publicClient |-> publicClient ]

Environments ==
    { Environment(TRUE, TRUE, TRUE, TRUE), Environment(TRUE, TRUE, TRUE, FALSE),
      Environment(FALSE, TRUE, TRUE, TRUE), Environment(TRUE, FALSE, TRUE, TRUE),
      Environment(TRUE, TRUE, FALSE, TRUE) }

\* txStates[id]: "absent" stands for no entry, hash 0 for no hash
TxState(status, hash, error) == [ status |-> status, hash |-> hash, error |-> error ]
NoTxState == TxState("absent", 0, FALSE)

\* a call of handleSaveOnchain: where it is suspended and its locals
IdleSave == [ pc |-> "idle", summaryPreview |-> << >>, hash |-> 0 ]

\* the page with `summaries` in the environment `env`
Page0(env, summaries) ==
    [ env       |-> env,
      summaries |-> summaries,
      txStates  |-> [ b \in Saved |-> NoTxState ],
      saves     |-> [ b \in Saved |-> IdleSave ],
      sent      |-> 0,
      pool      |-> << >> ]

NoUi == Page0(Environment(FALSE, FALSE, FALSE, FALSE), [ b \in Saved |-> << Run(21, 1) >> ])

\* the address of the connected wallet
Wallet == "0xa"

\* mutant: the button stays enabled while a save is in flight
DisabledUnlessReady(b) ==
    \/ ~ui.env.isConnected
    \/ ~ui.env.isContractConfigured
    \/ ~ui.env.isOnExpectedChain

\* the `disabled` attribute of the Save button of bookmark b
Disabled(b) ==
    \/ ~ui.env.isConnected
    \/ ~ui.env.isContractConfigured
    \/ ~ui.env.isOnExpectedChain
    \/ ui.txStates[b].status = "wallet"
    \/ ui.txStates[b].status = "pending"

\* the Save button of b is clicked: handleSaveOnchain runs up to the call of
\* writeContractAsync (at most MaxChain saves are started)
SaveClick(b) ==
    /\ ~Disabled(b)
    /\ ui.sent + Cardinality({ c \in Saved : ui.saves[c].pc = "write" }) < MaxChain
    /\ ui.env.isConnected /\ ui.env.isContractConfigured /\ ui.env.isOnExpectedChain
    /\ ui' = [ ui EXCEPT !.txStates[b] = TxState("wallet", 0, FALSE),
                          !.saves[b] = [ pc |-> "write",
                                         summaryPreview |-> PreviewOf(ui.summaries[b]),
                                         hash |-> 0 ] ]
    /\ UNCHANGED << config, markup, cursor, listing, chain, tx, limiterVars, postVars,
                    tweetVars >>

\* writeContractAsync throws (the user declines, or the wallet refuses)
WalletRejects(b) ==
    /\ ui.saves[b].pc = "write"
    /\ ui' = [ ui EXCEPT !.txStates[b] = TxState("error", 0, TRUE),
                          !.saves[b] = IdleSave ]
    /\ UNCHANGED << config, markup, cursor, listing, chain, tx, limiterVars, postVars,
                    tweetVars >>

\* writeContractAsync returns the hash of the transaction it has sent
WalletSubmits(b) ==
    /\ ui.saves[b].pc = "write"
    /\ LET hash == ui.sent + 1
       IN  ui' = [ ui EXCEPT !.txStates[b] = TxState("pending", hash, FALSE),
                             !.saves[b].pc = IF ui.env.publicClient THEN "wait" ELSE "skip",
                             !.saves[b].hash = hash,
                             !.sent = hash,
                             !.pool = Append(@, [ hash           |-> hash,
                                                  summary        |-> ui.summaries[b],
                                                  summaryPreview |-> ui.saves[b].summaryPreview ]) ]
    /\ UNCHANGED << config, markup, cursor, listing, chain, tx, limiterVars, postVars,
                    tweetVars >>

\* the oldest transaction sent is included in a block
Included ==
    /\ ui.pool # << >>
    /\ \E t \in BlockTimes(chain) :
          LET sentTx == Head(ui.pool)
              r == createBookmark(chain, Wallet, "", keccak256(sentTx.summary),
                                  sentTx.summaryPreview, t)
          IN  /\ chain' = r.chain
              /\ tx' = [ NoTx EXCEPT !.kind = "createBookmark", !.sender = Wallet,
                                      !.summaryPreview = sentTx.summaryPreview,
                                      !.id = sentTx.hash,
                                      !.reverted = r.reverted ]
    /\ ui' = [ ui EXCEPT !.pool = Tail(@) ]
    /\ UNCHANGED << config, markup, cursor, listing, limiterVars, postVars, tweetVars >>

\* the transaction of hash h has a receipt
HasReceipt(h) == h # 0 /\ \A k \in DOMAIN ui.pool : ui.pool[k].hash # h

\* waitForTransactionReceipt returns the receipt (of a transaction that
\* succeeded or reverted)
ReceiptArrives(b) ==
    /\ ui.saves[b].pc = "wait"
    /\ HasReceipt(ui.saves[b].hash)
    /\ ui' = [ ui EXCEPT !.txStates[b] = TxState("success", ui.saves[b].hash, FALSE),
                          !.saves[b] = IdleSave ]
    /\ UNCHANGED << config, markup, cursor, listing, chain, tx, limiterVars, postVars,
                    tweetVars >>

\* waitForTransactionReceipt throws (timeout, transport error)
ReceiptFails(b) ==
    /\ ui.saves[b].pc = "wait"
    /\ ui' = [ ui EXCEPT !.txStates[b] = TxState("error", 0, TRUE),
                          !.saves[b] = IdleSave ]
    /\ UNCHANGED << config, markup, cursor, listing, chain, tx, limiterVars, postVars,
                    tweetVars >>

\* without publicClient the handler does not wait
NoReceiptWait(b) ==
    /\ ui.saves[b].pc = "skip"
    /\ ui' = [ ui EXCEPT !.txStates[b] = TxState("success", ui.saves[b].hash, FALSE),
                          !.saves[b] = IdleSave ]
    /\ UNCHANGED << config, markup, cursor, listing, chain, tx, limiterVars, postVars,
                    tweetVars >>

\* the wallet or the receipt wait answers the suspended handler of b
Answered(b) ==
    \/ WalletRejects(b)
    \/ WalletSubmits(b)
    \/ ReceiptArrives(b)
    \/ ReceiptFails(b)
    \/ NoReceiptWait(b)

\* a GET /api/bookmarks request the server has not received yet
IdleListing == [ pc |-> "idle", status |-> 0, rows |-> << >> ]

InitOther ==
    /\ markup = NoHtml
    /\ cursor = 1
    /\ listing = IdleListing
    /\ chain = NewChain
    /\ tx = NoTx
    /\ ui = NoUi

InitSave ==
    /\ clients = MainClients
    /\ RPM = 10
    /\ DAILY = 200
    /\ DAILY_CHARS = 200000
    /\ InitLimiter
    /\ InitPosts
    /\ InitTweet
    /\ THREAD_MAX_TWEETS = 40
    /\ markup = NoHtml
    /\ cursor = 1
    /\ listing = IdleListing
    /\ chain = NewChain
    /\ tx = NoTx
    /\ \E env \in Environments, summaries \in [ Saved -> Summaries ] :
          ui = Page0(env, summaries)

NextSave ==
    \/ Included
    \/ \E b \in Saved :
          \/ SaveClick(b)
          \/ WalletRejects(b)
          \/ WalletSubmits(b)
          \/ ReceiptArrives(b)
          \/ ReceiptFails(b)
          \/ NoReceiptWait(b)

\* the wallet and the receipt wait answer, and sent transactions are included
SpecSave ==
    /\ InitSave
    /\ [][NextSave]_vars
    /\ \A b \in Saved : WF_vars(Answered(b))
    /\ WF_vars(Included)

InitChain ==
    /\ clients = MainClients
    /\ RPM = 10
    /\ DAILY = 200
    /\ DAILY_CHARS = 200000
    /\ InitLimiter
    /\ InitPosts
    /\ InitTweet
    /\ THREAD_MAX_TWEETS = 40
    /\ InitOther

NextChain == CreateBookmark \/ GetBookmark \/ CallCount

SpecChain == InitChain /\ [][NextChain]_vars

Init ==
    /\ \/ /\ clients = MainClients
          /\ RPM \in RpmValues
          /\ DAILY \in DailyValues
          /\ DAILY_CHARS \in DailyCharsValues
       \/ /\ clients \in OtherClientSets
          /\ RPM = 2
          /\ DAILY = 3
          /\ DAILY_CHARS = 1
    /\ InitLimiter
    /\ InitPosts
    /\ InitTweet
    /\ THREAD_MAX_TWEETS = 40
    /\ InitOther

\* time passes
TickClock == Tick(Instants) /\ UNCHANGED << postVars, tweetVars >>

\* one rate-check call
EnforceLimits ==
    /\ \E request \in clients, n \in 1..MaxLen : LimiterCall(request, n)
    /\ UNCHANGED << postVars, tweetVars >>

Next == TickClock \/ EnforceLimits

Spec == Init /\ [][Next]_vars

(***************************************************************************)
(* POST /api/bookmarks.  The handler is suspended at `await                *)
(* request.json()`, `await summarizeText(...)` and `await                  *)
(* prisma.bookmark.create(...)`; the code between two of them runs without *)
(* interleaving.                                                           *)
(***************************************************************************)
\* the instants the clock visits while POST requests are served
PostInstants == { 0, 60 }

\* a request arrives and the handler awaits its body
PostArrive(p) ==
    /\ posts[p].pc = "idle"
    /\ \E request \in clients :
          posts' = [posts EXCEPT ![p] = [@ EXCEPT !.pc = "json", !.request = request]]
    /\ UNCHANGED << config, otherVars, limiterVars, bookmarks, tweetVars >>

\* request.json() throws: the catch block answers 500
PostBodyUnreadable(p) ==
    /\ posts[p].pc = "json"
    /\ posts' = [posts EXCEPT ![p] = Responded(@, 500, Granted)]
    /\ UNCHANGED << config, otherVars, limiterVars, bookmarks, tweetVars >>

\* the body has arrived and sourceText is refused: 400
PostInvalid(p) ==
    /\ posts[p].pc = "json"
    /\ \E value \in SourceTexts :
          /\ \/ ~isNonEmptyString(value)
             \/ TextLength(TextTrim(value.text)) > MAX_SOURCE_TEXT_LENGTH
          /\ posts' = [posts EXCEPT ![p] =
                         Responded([@ EXCEPT !.read = TRUE, !.body = value],
                                   400, Granted)]
    /\ UNCHANGED << config, otherVars, limiterVars, bookmarks, tweetVars >>

\* mutant: the handler goes on to summarizeText whatever the limiter says
PostCheckedUnguarded(p) ==
    /\ posts[p].pc = "json"
    /\ \E value \in SourceTexts :
          LET sourceText == TextTrim(value.text)
          IN  /\ isNonEmptyString(value)
              /\ TextLength(sourceText) <= MAX_SOURCE_TEXT_LENGTH
              /\ LimiterCall(posts[p].request, TextLength(sourceText))
              /\ posts' = [posts EXCEPT ![p] =
                             [@ EXCEPT !.pc = "summarize",
                                       !.read = TRUE, !.body = value,
                                       !.sourceText = sourceText]]
    /\ UNCHANGED << bookmarks, tweetVars >>

\* the body has arrived with a valid sourceText: the limiter is asked, and
\* the handler answers 429 or calls summarizeText and awaits it
PostChecked(p) ==
    /\ posts[p].pc = "json"
    /\ \E value \in SourceTexts :
          LET sourceText == TextTrim(value.text)
              limitErr   == enforceLimits(buckets, posts[p].request,
                                          TextLength(sourceText), now).result
          IN  /\ isNonEmptyString(value)
              /\ TextLength(sourceText) <= MAX_SOURCE_TEXT_LENGTH
              /\ LimiterCall(posts[p].request, TextLength(sourceText))
              /\ posts' = [posts EXCEPT ![p] =
                             IF limitErr # Granted
                             THEN Responded([@ EXCEPT !.read = TRUE, !.body = value],
                                            429, limitErr)
                             ELSE [@ EXCEPT !.pc = "summarize",
                                            !.read = TRUE, !.body = value,
                                            !.sourceText = sourceText]]
    /\ UNCHANGED << bookmarks, tweetVars >>

\* summarizeText returns and the handler awaits the insert
PostSummarized(p) ==
    /\ posts[p].pc = "summarize"
    /\ \E out \in OutputTexts :
          posts' = [posts EXCEPT ![p] =
                      [@ EXCEPT !.pc = "create",
                                !.summary = summarizeText(posts[p].sourceText, out)]]
    /\ UNCHANGED << config, otherVars, limiterVars, bookmarks, tweetVars >>

\* summarizeText throws: the catch block answers 500
PostSummaryFailed(p) ==
    /\ posts[p].pc = "summarize"
    /\ posts' = [posts EXCEPT ![p] = Responded(@, 500, Granted)]
    /\ UNCHANGED << config, otherVars, limiterVars, bookmarks, tweetVars >>

\* the insert returns the new row: 201
PostCreated(p) ==
    /\ posts[p].pc = "create"
    /\ bookmarks' = Append(bookmarks, [ sourceText |-> posts[p].sourceText,
                                         summary    |-> posts[p].summary ])
    /\ posts' = [posts EXCEPT ![p] = Responded(@, 201, Granted)]
    /\ UNCHANGED << config, otherVars, limiterVars, tweetVars >>

\* the insert throws: the catch block answers 500
PostCreateFailed(p) ==
    /\ posts[p].pc = "create"
    /\ posts' = [posts EXCEPT ![p] = Responded(@, 500, Granted)]
    /\ UNCHANGED << config, otherVars, limiterVars, bookmarks, tweetVars >>

\* time passes while requests are served
PostClock == Tick(PostInstants) /\ UNCHANGED << postVars, tweetVars >>

InitPost ==
    /\ clients = MainClients
    /\ RPM \in { 0, 2 }
    /\ DAILY = 3
    /\ DAILY_CHARS = 3
    /\ InitLimiter
    /\ InitPosts
    /\ InitTweet
    /\ THREAD_MAX_TWEETS = 40
    /\ InitOther

NextPost ==
    \/ PostClock
    \/ \E p \in 1..MaxPosts :
          \/ PostArrive(p)
          \/ PostBodyUnreadable(p)
          \/ PostInvalid(p)
          \/ PostChecked(p)
          \/ PostSummarized(p)
          \/ PostSummaryFailed(p)
          \/ PostCreated(p)
          \/ PostCreateFailed(p)

SpecPost == InitPost /\ [][NextPost]_vars

(***************************************************************************)
(* GET /api/bookmarks, served while POST requests are served.  The handler *)
(* is suspended at `await prisma.bookmark.findMany(...)`.                  *)
(***************************************************************************)
\* orderBy: { createdAt: "desc" }
Newest(rows) == [ k \in 1..Len(rows) |-> rows[Len(rows) + 1 - k] ]

\* a read-all request arrives and the handler awaits the rows
GetArrive ==
    /\ listing.pc = "idle"
    /\ listing' = [ listing EXCEPT !.pc = "find" ]
    /\ UNCHANGED << config, ui, markup, cursor, chain, tx, limiterVars, postVars, tweetVars >>

\* findMany returns the rows: 200
GetFound ==
    /\ listing.pc = "find"
    /\ listing' = [ pc |-> "done", status |-> 200, rows |-> Newest(bookmarks) ]
    /\ UNCHANGED << config, ui, markup, cursor, chain, tx, limiterVars, postVars, tweetVars >>

\* findMany throws: the catch block answers 500
GetFailed ==
    /\ listing.pc = "find"
    /\ listing' = [ listing EXCEPT !.pc = "done", !.status = 500 ]
    /\ UNCHANGED << config, ui, markup, cursor, chain, tx, limiterVars, postVars, tweetVars >>

InitBookmarks ==
    /\ clients = MainClients
    /\ RPM = 1
    /\ DAILY = 3
    /\ DAILY_CHARS = 3
    /\ InitLimiter
    /\ InitPosts
    /\ InitTweet
    /\ THREAD_MAX_TWEETS = 40
    /\ InitOther

NextBookmarks ==
    \/ NextPost
    \/ GetArrive
    \/ GetFound
    \/ GetFailed

SpecBookmarks == InitBookmarks /\ [][NextBookmarks]_vars

(***************************************************************************)
(* GET /api/tweet.  The handler is suspended while fetchTweetById,         *)
(* resolveRedirect, tryFetchArticleText and each page request of           *)
(* fetchThreadTweets wait for the network; `requests` lists the outbound   *)
(* requests in the order they are issued.                                  *)
(***************************************************************************)
\* the answer `status` with an error body
Failed(t, status) == [ t EXCEPT !.pc = "done", !.status = status ]

\* the number of page requests of the search issued so far
Searches(t) == Len(SelectSeq(t.requests, LAMBDA r : r = "search"))

\* mutant: the page size is not held at 100
PageLimitUncapped(items) == THREAD_MAX_TWEETS - Len(items)

\* the page size fetchThreadTweets asks for with `items` collected
PageLimit(items) ==
    IF THREAD_MAX_TWEETS - Len(items) < 100 THEN THREAD_MAX_TWEETS - Len(items) ELSE 100

\* mutant: thread assembly starts for every post that has both ids
ThreadOrAnswerUnasked(t) ==
    IF t.conversation /\ t.author
    THEN IF Len(t.items) < THREAD_MAX_TWEETS
         THEN [ t EXCEPT !.pc = "thread", !.threadRan = TRUE,
                         !.limit = PageLimit(t.items),
                         !.requests = Append(@, "search") ]
         ELSE LET ran == [ t EXCEPT !.threadRan = TRUE ]
              IN  [ ran EXCEPT !.pc = "done", !.status = 200, !.document = Document(ran) ]
    ELSE [ t EXCEPT !.pc = "done", !.status = 200, !.document = Document(t) ]

\* step 2 and the answer: thread assembly starts if it was asked for and the
\* post has both ids and the loop is entered; else the document is returned
ThreadOrAnswer(t) ==
    IF t.includeThread /\ t.conversation /\ t.author
    THEN IF Len(t.items) < THREAD_MAX_TWEETS
         THEN [ t EXCEPT !.pc = "thread", !.threadRan = TRUE,
                         !.limit = PageLimit(t.items),
                         !.requests = Append(@, "search") ]
         ELSE LET ran == [ t EXCEPT !.threadRan = TRUE ]
              IN  [ ran EXCEPT !.pc = "done", !.status = 200, !.document = Document(ran) ]
    ELSE [ t EXCEPT !.pc = "done", !.status = 200, !.document = Document(t) ]

\* the request arrives without a bearer token, without ?url= or with a
\* locator that holds no post id
TweetRefused ==
    /\ tweet.pc = "idle"
    /\ \E bearer \in BOOLEAN, url \in Locators :
          /\ \/ ~bearer
             \/ Trim(url) = << >>
             \/ ~extractTweetId(url).found
          /\ tweet' = Failed([ tweet EXCEPT !.url = url,
                                             !.tweetId = IF bearer /\ Trim(url) # << >>
                                                         THEN extractTweetId(url)
                                                         ELSE NoId ],
                              IF ~bearer THEN 500
                                    ELSE IF Trim(url) = << >> THEN 400 ELSE 422)
    /\ UNCHANGED << config, otherVars, limiterVars, postVars, THREAD_MAX_TWEETS >>

\* the request arrives with a post id: the post is asked for
TweetArrive ==
    /\ tweet.pc = "idle"
    /\ \E url \in Locators, includeThread \in BOOLEAN :
          /\ Trim(url) # << >>
          /\ extractTweetId(url).found
          /\ tweet' = [ tweet EXCEPT !.pc = "post", !.includeThread = includeThread,
                                     !.url = url, !.tweetId = extractTweetId(url),
                                     !.requests = Append(@, "post") ]
    /\ UNCHANGED << config, otherVars, limiterVars, postVars, THREAD_MAX_TWEETS >>

\* fetchTweetById throws: no success status, or an answer of another shape
TweetPostFailed ==
    /\ tweet.pc = "post"
    /\ tweet' = Failed(tweet, 500)
    /\ UNCHANGED << config, otherVars, limiterVars, postVars, THREAD_MAX_TWEETS >>

\* mutant: the first link is resolved whatever the rest of the text
TweetPostAlwaysResolves ==
    /\ tweet.pc = "post"
    /\ \E t \in Posts :
          LET expandedText == expandUrls(t.text, t.entities)
              got == [ tweet EXCEPT !.expandedText = expandedText,
                                    !.conversation = t.conversation_id,
                                    !.author = t.author_id ]
          IN  tweet' = IF getFirstHttpUrl(expandedText) # ""
                       THEN [ got EXCEPT !.pc = "redirect",
                                         !.redirected = getFirstHttpUrl(expandedText),
                                         !.requests = Append(@, "redirect") ]
                       ELSE ThreadOrAnswer(got)
    /\ UNCHANGED << config, otherVars, limiterVars, postVars, THREAD_MAX_TWEETS >>

\* fetchTweetById returns the post: step 1 asks for the redirect of the
\* first link of a text that is mostly a link, else step 2 follows
TweetPost ==
    /\ tweet.pc = "post"
    /\ \E t \in Posts :
          LET expandedText == expandUrls(t.text, t.entities)
              got == [ tweet EXCEPT !.expandedText = expandedText,
                                    !.conversation = t.conversation_id,
                                    !.author = t.author_id ]
          IN  tweet' = IF looksLikeMostlyLink(expandedText)
                          /\ getFirstHttpUrl(expandedText) # ""
                       THEN [ got EXCEPT !.pc = "redirect",
                                         !.redirected = getFirstHttpUrl(expandedText),
                                         !.requests = Append(@, "redirect") ]
                       ELSE ThreadOrAnswer(got)
    /\ UNCHANGED << config, otherVars, limiterVars, postVars, THREAD_MAX_TWEETS >>

\* the redirect GET fails or is aborted: resolveRedirect has no catch block
\* and the error reaches the catch block of GET
TweetRedirectFailed ==
    /\ tweet.pc = "redirect"
    /\ tweet' = Failed(tweet, 500)
    /\ UNCHANGED << config, otherVars, limiterVars, postVars, THREAD_MAX_TWEETS >>

\* resolveRedirect returns res.url || url (fetch answers no URL that does not
\* parse): the article is asked for unless tryFetchArticleText refuses the URL
TweetRedirect ==
    /\ tweet.pc = "redirect"
    /\ Parses(getFirstHttpUrl(tweet.expandedText))
    /\ \E final \in FinalUrls :
          LET first       == getFirstHttpUrl(tweet.expandedText)
              resolvedUrl == IF final # "" THEN final ELSE first
              got         == [ tweet EXCEPT !.resolvedUrl = resolvedUrl ]
          IN  tweet' = IF ArticleRefused(resolvedUrl)
                       THEN ThreadOrAnswer(got)
                       ELSE [ got EXCEPT !.pc = "article",
                                         !.fetched = resolvedUrl,
                                         !.requests = Append(@, "article") ]
    /\ UNCHANGED << config, otherVars, limiterVars, postVars, THREAD_MAX_TWEETS >>

\* the article GET is answered (or throws, which gives null)
TweetArticle ==
    /\ tweet.pc = "article"
    /\ \E page \in Pages :
          tweet' = ThreadOrAnswer([ tweet EXCEPT !.page = page,
                                                 !.articleText = ArticleTextOf(page) ])
    /\ UNCHANGED << config, otherVars, limiterVars, postVars, THREAD_MAX_TWEETS >>

\* the statuses of an answer that is not ok
UpstreamErrors == { 429, 503 }

\* mutant: the items of the earlier pages are answered as the thread
TweetPagePartial ==
    /\ tweet.pc = "thread"
    /\ \E status \in UpstreamErrors :
          LET got == [ tweet EXCEPT !.upstream = status ]
          IN  tweet' = [ got EXCEPT !.pc = "done", !.status = 200,
                                    !.document = Document(got) ]
    /\ UNCHANGED << config, otherVars, limiterVars, postVars, THREAD_MAX_TWEETS >>

\* a page request of the search has no success status: fetchThreadTweets
\* throws an error that names the status, and the catch block of GET answers
TweetPageFailed ==
    /\ tweet.pc = "thread"
    /\ \E status \in UpstreamErrors :
          tweet' = Failed([ tweet EXCEPT !.upstream = status ], 500)
    /\ UNCHANGED << config, otherVars, limiterVars, postVars, THREAD_MAX_TWEETS >>

\* a page of the search arrives: its entries are collected, and the next page
\* is asked for unless the cap is reached or the page carries no next_token
\* (the page of request MaxSearches carries no next_token)
TweetPage ==
    /\ tweet.pc = "thread"
    /\ \E page \in SearchPages(tweet.limit) :
          /\ page.next_token => Searches(tweet) < MaxSearches
          /\ LET got == [ tweet EXCEPT !.items = @ \o Kept(page.data),
                                       !.nextToken = page.next_token ]
             IN  tweet' = IF page.next_token /\ Len(got.items) < THREAD_MAX_TWEETS
                          THEN [ got EXCEPT !.limit = PageLimit(got.items),
                                            !.requests = Append(@, "search") ]
                          ELSE [ got EXCEPT !.pc = "done", !.status = 200,
                                            !.document = Document(got) ]
    /\ UNCHANGED << config, otherVars, limiterVars, postVars, THREAD_MAX_TWEETS >>

ThreadMaxValues == { 0, 2, 101 }

InitTweetOnly ==
    /\ clients = MainClients
    /\ RPM = 10
    /\ DAILY = 200
    /\ DAILY_CHARS = 200000
    /\ InitLimiter
    /\ InitPosts
    /\ InitTweet
    /\ THREAD_MAX_TWEETS \in ThreadMaxValues
    /\ InitOther

NextTweet ==
    \/ TweetRefused
    \/ TweetArrive
    \/ TweetPostFailed
    \/ TweetPost
    \/ TweetRedirectFailed
    \/ TweetRedirect
    \/ TweetArticle
    \/ TweetPageFailed
    \/ TweetPage

SpecTweet == InitTweetOnly /\ [][NextTweet]_vars

(***************************************************************************)
(* The paging loop of fetchThreadTweets against a search that answers      *)
(* every request and may hand out a continuation token with every page.    *)
(* Each token differs from the one before (two tokens tell consecutive     *)
(* requests apart); `requests` keeps the first MaxSearches page requests.  *)
(***************************************************************************)
PagingCaps == { 1, 2 }

TweetPageAnyUpstream ==
    /\ tweet.pc = "thread"
    /\ \E page \in SearchPages(tweet.limit) :
          LET got == [ tweet EXCEPT !.items = @ \o Kept(page.data),
                                    !.nextToken = page.next_token ]
          IN  /\ tweet' = IF page.next_token /\ Len(got.items) < THREAD_MAX_TWEETS
                           THEN [ got EXCEPT !.limit = PageLimit(got.items),
                                             !.requests = IF Searches(tweet) < MaxSearches
                                                          THEN Append(@, "search")
                                                          ELSE @ ]
                           ELSE [ got EXCEPT !.pc = "done", !.status = 200,
                                             !.document = Document(got) ]
              /\ cursor' = IF page.next_token THEN 3 - cursor ELSE cursor
    /\ UNCHANGED << config, ui, markup, listing, chain, tx, limiterVars, postVars, THREAD_MAX_TWEETS >>

InitPaging ==
    /\ clients = MainClients
    /\ RPM = 10
    /\ DAILY = 200
    /\ DAILY_CHARS = 200000
    /\ InitLimiter
    /\ InitPosts
    /\ InitTweet
    /\ THREAD_MAX_TWEETS \in PagingCaps
    /\ InitOther

NextPaging ==
    \/ TweetRefused
    \/ TweetArrive
    \/ TweetPostFailed
    \/ TweetPost
    \/ TweetRedirectFailed
    \/ TweetRedirect
    \/ TweetArticle
    \/ TweetPageFailed
    \/ TweetPageAnyUpstream

\* every request is answered and the handler goes on after each answer
SpecPaging == InitPaging /\ [][NextPaging]_vars /\ WF_vars(NextPaging)

(***************************************************************************)
(* The input checks of both routes: POST /api/bookmarks requests up to the *)
(* call of summarizeText and a GET /api/tweet request up to the call of    *)
(* fetchTweetById, the first outbound call of each handler.                *)
(***************************************************************************)
InitInputs ==
    /\ clients = MainClients
    /\ RPM = 2
    /\ DAILY = 3
    /\ DAILY_CHARS = 3
    /\ InitLimiter
    /\ InitPosts
    /\ InitTweet
    /\ THREAD_MAX_TWEETS = 40
    /\ InitOther

NextInputs ==
    \/ TweetRefused
    \/ TweetArrive
    \/ \E p \in 1..MaxPosts :
          \/ PostArrive(p)
          \/ PostBodyUnreadable(p)
          \/ PostInvalid(p)
          \/ PostChecked(p)

SpecInputs == InitInputs /\ [][NextInputs]_vars

(***************************************************************************)
(* stripHtmlToText applied to a text, and again to its result.             *)
(***************************************************************************)
InitHtml ==
    /\ clients = MainClients
    /\ RPM = 10
    /\ DAILY = 200
    /\ DAILY_CHARS = 200000
    /\ InitLimiter
    /\ InitPosts
    /\ InitTweet
    /\ THREAD_MAX_TWEETS = 40
    /\ \E h \in SeqsUpTo(PlainPieces, MaxHtml) \cup HtmlSamples :
          markup = [ input |-> h, text |-> h, passes |-> 0 ]
    /\ cursor = 1
    /\ listing = IdleListing
    /\ chain = NewChain
    /\ tx = NoTx
    /\ ui = NoUi

Strip ==
    /\ markup.passes < 2
    /\ markup' = [ markup EXCEPT !.text = stripHtmlToText(markup.text),
                                  !.passes = @ + 1 ]
    /\ UNCHANGED << config, ui, limiterVars, postVars, tweetVars, cursor, listing, chain, tx >>

NextHtml == Strip

SpecHtml == InitHtml /\ [][NextHtml]_vars

(***************************************************************************)
(* Properties of the rate limiter.  A step that is a rate-check call has   *)
(* last'.kind = "call"; in such a step the unprimed variables are the      *)
(* state the call found.                                                   *)
(***************************************************************************)
CallStep == last'.kind = "call"

\* the caller of the call just made, its request length and its outcome
Caller(l) == getClientIp(l.request)

\* the day ceilings leave room for a call of n characters by identity i
DayCeilingsFree(i, n) ==
    /\ tally[i].day + 1 <= DAILY
    /\ tally[i].chars + n <= DAILY_CHARS

\* C1 as stated: for an identity whose per-day ceilings are not reached, a
\* call is accepted exactly when fewer than RPM calls of the identity were
\* accepted before it in the same UTC minute (so the first RPM calls of a
\* minute are accepted, every further one is rejected, and the first call of
\* a later minute is accepted again), and the rejection carries the
\* per-minute message.
C1_FirstRpmCallsPerMinute ==
    [][ CallStep =>
          LET i == Caller(last') n == last'.n
          IN  DayCeilingsFree(i, n) =>
                /\ (last'.result = Granted) <=> (tally[i].minute < RPM)
                /\ last'.result # Granted =>
                      last'.result = [ limit |-> "minute", max |-> RPM ]
      ]_vars

\* C1 amended: the very first call of an identity (no bucket yet) is always
\* accepted; every other call of an identity whose per-day ceilings are not
\* reached is accepted exactly when fewer than RPM calls of the identity
\* were accepted before it in the same UTC minute, and is otherwise rejected
\* with the per-minute message.
C1_FirstRpmCallsPerMinuteOfExistingBucket ==
    [][ CallStep =>
          LET i == Caller(last') n == last'.n
          IN  /\ i \notin DOMAIN buckets => last'.result = Granted
              /\ (i \in DOMAIN buckets /\ DayCeilingsFree(i, n)) =>
                    /\ (last'.result = Granted) <=> (tally[i].minute < RPM)
                    /\ last'.result # Granted =>
                          last'.result = [ limit |-> "minute", max |-> RPM ]
      ]_vars

\* the third call of one minute was rejected with the per-minute message
\* although the day ceilings left room for it
C1_Witness ==
    /\ last.kind = "call"
    /\ last.result = [ limit |-> "minute", max |-> 2 ]
    /\ tally[Caller(last)].minute = 2
    /\ tally[Caller(last)].day + 1 <= DAILY
    /\ tally[Caller(last)].chars + last.n <= DAILY_CHARS

\* C2: a call of an existing identity that arrives in a UTC day other than
\* the bucket's stored day-key is judged against day counters reset to 0:
\* it is rejected with a daily message only when a single request already
\* exceeds that ceiling, never because of the day before, and it leaves the
\* day counters at what this one call added.  The per-minute ceiling is
\* judged independently and may still reject it.
C2_DayRolloverResetsDayCounters ==
    [][ CallStep =>
          LET i == Caller(last') n == last'.n
          IN  (i \in DOMAIN buckets /\ buckets[i].dayKey # << now \div 86400 >>) =>
                /\ last'.result.limit = "day" => 1 > DAILY
                /\ last'.result.limit = "chars" => n > DAILY_CHARS
                /\ buckets'[i].dayCount = IF last'.result = Granted THEN 1 ELSE 0
                /\ buckets'[i].dayChars = IF last'.result = Granted THEN n ELSE 0
      ]_vars

\* a call on a new day was accepted although the bucket's day counters had
\* reached both daily ceilings the day before
C2_Witness ==
    /\ last.kind = "call"
    /\ last.gap = "other day"
    /\ last.result = Granted
    /\ last.before.dayCount + 1 > DAILY
    /\ last.before.dayChars + last.n > DAILY_CHARS

\* C3: a rejected call increments nothing: none of minuteCount, dayCount,
\* dayChars of the caller's bucket is larger after the call than before it.
C3_RejectedCallIncrementsNothing ==
    [][ (CallStep /\ last'.result # Granted) =>
          LET i == Caller(last')
          IN  /\ i \in DOMAIN buckets
              /\ buckets'[i].minuteCount <= buckets[i].minuteCount
              /\ buckets'[i].dayCount <= buckets[i].dayCount
              /\ buckets'[i].dayChars <= buckets[i].dayChars
      ]_vars

\* a call was rejected at the per-minute ceiling and left the counters as
\* they were
C3_Witness ==
    /\ last.kind = "call"
    /\ last.result.limit = "minute"
    /\ last.gap = "same minute"
    /\ last.before.minuteCount = 2
    /\ Counters(buckets[Caller(last)]) = last.before

\* C4: for an existing bucket the ceilings are checked in the order
\* per-minute, per-day count, per-day characters and the message is that of
\* the first one violated (what was accepted in the current minute and day
\* is taken from the history of the calls).
C4_FirstViolatedCeilingDecides ==
    [][ CallStep =>
          LET i == Caller(last') n == last'.n
          IN  i \in DOMAIN buckets =>
                last'.result =
                   IF tally[i].minute + 1 > RPM
                   THEN [ limit |-> "minute", max |-> RPM ]
                   ELSE IF tally[i].day + 1 > DAILY
                   THEN [ limit |-> "day", max |-> DAILY ]
                   ELSE IF tally[i].chars + n > DAILY_CHARS
                   THEN [ limit |-> "chars", max |-> DAILY_CHARS ]
                   ELSE [ limit |-> "none", max |-> 0 ]
      ]_vars

\* all three ceilings were exceeded at once and the per-minute message won
C4_Witness ==
    /\ last.kind = "call"
    /\ last.gap # "first call"
    /\ last.result.limit = "minute"
    /\ tally[Caller(last)].day + 1 > DAILY
    /\ tally[Caller(last)].chars + last.n > DAILY_CHARS
    /\ DAILY > 0

\* C5: an accepted call on an existing bucket adds exactly 1 to minuteCount,
\* 1 to dayCount and N to dayChars, counted from 0 for a counter whose
\* window (UTC minute, UTC day) changed since the identity's previous call.
C5_AcceptedCallIncrements ==
    [][ (CallStep /\ last'.result = Granted) =>
          LET i == Caller(last') n == last'.n
          IN  i \in DOMAIN buckets =>
                LET sameMinute == SameMinute(tally[i].at, now)
                    sameDay    == SameDay(tally[i].at, now)
                IN  /\ buckets'[i].minuteCount =
                          (IF sameMinute THEN buckets[i].minuteCount ELSE 0) + 1
                    /\ buckets'[i].dayCount =
                          (IF sameDay THEN buckets[i].dayCount ELSE 0) + 1
                    /\ buckets'[i].dayChars =
                          (IF sameDay THEN buckets[i].dayChars ELSE 0) + n
      ]_vars

\* a call of 2 characters was accepted in a new minute of the same day: the
\* minute counter restarted, the day counters went on
C5_Witness ==
    /\ last.kind = "call"
    /\ last.gap = "other minute"
    /\ last.result = Granted
    /\ last.n = 2
    /\ last.before.minuteCount = 1
    /\ last.before.dayChars = 1
    /\ buckets[Caller(last)].minuteCount = 1
    /\ buckets[Caller(last)].dayCount = last.before.dayCount + 1
    /\ buckets[Caller(last)].dayChars = last.before.dayChars + 2

\* C6: the first call of an identity that has no bucket is accepted whatever
\* N and the ceilings are, and creates the bucket with the current day-key
\* and minute-key, minuteCount = 1, dayCount = 1 and dayChars = N.
C6_FirstCallCreatesBucket ==
    [][ CallStep =>
          LET i == Caller(last') n == last'.n
          IN  i \notin DOMAIN buckets =>
                /\ last'.result = Granted
                /\ i \in DOMAIN buckets'
                /\ buckets'[i] =
                      [ dayKey      |-> << now \div 86400 >>,
                        minuteKey   |-> << now \div 86400,
                                           (now % 86400) \div 3600,
                                           (now % 3600) \div 60 >>,
                        minuteCount |-> 1,
                        dayCount    |-> 1,
                        dayChars    |-> n ]
      ]_vars

\* a first call was accepted with every ceiling below a single request
C6_Witness ==
    /\ last.kind = "call"
    /\ last.gap = "first call"
    /\ last.result = Granted
    /\ RPM = 0
    /\ DAILY = 0
    /\ last.n > DAILY_CHARS
    /\ now = 3600
    /\ buckets[Caller(last)].minuteKey = << 0, 1, 0 >>

\* a call in another UTC minute of the UTC day of the identity's previous
\* call restarts minuteCount from 0 and keeps dayCount and dayChars
MinuteRolloverKeepsDay ==
    CallStep =>
       LET i == Caller(last') n == last'.n
       IN  (i \in DOMAIN buckets /\ Gap(tally[i].at, now) = "other minute") =>
             /\ buckets'[i].minuteCount = IF last'.result = Granted THEN 1 ELSE 0
             /\ buckets'[i].dayCount =
                   buckets[i].dayCount + IF last'.result = Granted THEN 1 ELSE 0
             /\ buckets'[i].dayChars =
                   buckets[i].dayChars + IF last'.result = Granted THEN n ELSE 0

\* C7 as stated: a call in a different UTC minute of the same UTC day restarts
\* minuteCount from 0 and keeps the day counters, and the number of calls of
\* an identity accepted in one UTC day never exceeds the daily ceiling.
C7_DailyCeilingAcrossMinutes ==
    [][ /\ MinuteRolloverKeepsDay
        /\ \A i \in Ids : tally'[i].day <= DAILY
      ]_vars

\* C7 amended: ... and the number of calls of an identity accepted in one UTC
\* day never exceeds the daily ceiling, or 1 when the ceiling is below 1 (the
\* identity's first call is accepted unconditionally).
C7_DailyCeilingAcrossMinutesButFirstCall ==
    [][ /\ MinuteRolloverKeepsDay
        /\ \A i \in Ids : tally'[i].day <= IF DAILY < 1 THEN 1 ELSE DAILY
      ]_vars

\* a call in a later minute of the day was rejected at the daily ceiling the
\* identity had reached over several minutes
C7_Witness ==
    /\ last.kind = "call"
    /\ last.gap = "other minute"
    /\ last.result.limit = "day"
    /\ DAILY = 3
    /\ tally[Caller(last)].day = 3
    /\ buckets[Caller(last)].minuteCount = 0
    /\ buckets[Caller(last)].dayCount = 3

\* the POST requests of identity i that passed the limiter and are suspended
\* at `await summarizeText(...)` or `await prisma.bookmark.create(...)`
InFlight(i) ==
    { p \in 1..MaxPosts : /\ posts[p].pc \in { "summarize", "create" }
                          /\ getClientIp(posts[p].request) = i }

\* C8 as stated: under every interleaving of POST requests, no two requests
\* of an identity accepted in one UTC minute passed the check at the same
\* value of the minute counter, and the number of requests of an identity
\* accepted in one UTC minute never exceeds RPM.
C8_NoTwoAcceptedAtOneCount ==
    \A i \in Ids :
        /\ Cardinality(tally[i].found) = tally[i].minute
        /\ tally[i].minute <= RPM

\* C8 amended: ... and the number of requests of an identity accepted in one
\* UTC minute never exceeds RPM, or 1 when RPM is below 1 (the identity's
\* first request is accepted unconditionally).
C8_NoTwoAcceptedAtOneCountButFirstCall ==
    \A i \in Ids :
        /\ Cardinality(tally[i].found) = tally[i].minute
        /\ tally[i].minute <= IF RPM < 1 THEN 1 ELSE RPM

\* two requests of one identity are suspended after the limiter accepted them
\* in the same UTC minute, one at the count 0 and the other at the count 1
C8_Witness ==
    \E i \in Ids :
        /\ InFlight(i) = { 1, 2 }
        /\ posts[1].pc = "create"
        /\ posts[2].pc = "summarize"
        /\ RPM = 2
        /\ tally[i].minute = 2
        /\ tally[i].found = { 0, 1 }

\* the identity the limiter is to use for a request
Identity(request) ==
    IF request.xff.present /\ Trim(request.xff.value) # << >>
    THEN Trim(SplitFirst(request.xff.value))
    ELSE IF request.realIp.present /\ Trim(request.realIp.value) # << >>
    THEN Trim(request.realIp.value)
    ELSE <<"l", "o", "c", "a", "l">>

\* C9: a call works on the bucket of the identity given by the first entry
\* of X-Forwarded-For when that header is present and non-blank, else by
\* X-Real-Ip when present and non-blank, else on the bucket of "local"; it
\* leaves the bucket of every other identity unchanged.
C9_BucketByIdentity ==
    [][ CallStep =>
          LET id == Identity(last'.request)
          IN  /\ DOMAIN buckets' = DOMAIN buckets \cup { id }
              /\ buckets'[id].minuteKey = nowKeys(now).minuteKey
              /\ \A other \in DOMAIN buckets \ { id } : buckets'[other] = buckets[other]
      ]_vars

\* a request with a blank X-Forwarded-For and an X-Real-Ip was counted in
\* the bucket of X-Real-Ip while another identity's bucket existed
C9_Witness ==
    /\ last.kind = "call"
    /\ last.request.xff = Value(<<" ">>)
    /\ last.request.realIp = Value(<<" ", "a", " ">>)
    /\ DOMAIN buckets = { << >>, <<"a">> }
    /\ buckets[<<"a">>].minuteKey # buckets[<< >>].minuteKey
    /\ buckets[<<"a">>].minuteKey = nowKeys(now).minuteKey

(***************************************************************************)
(* Properties of GET /api/tweet.                                           *)
(***************************************************************************)
\* the request was answered with a document
Extracted == tweet.pc = "done" /\ tweet.status = 200

\* article text was extracted: the article GET was issued and
\* tryFetchArticleText returned a text
ArticleExtracted == "article" \in Range(tweet.requests) /\ ~tweet.articleText.isNull

\* thread inclusion was requested and thread assembly yielded an item
ThreadYielded == tweet.includeThread /\ tweet.document.threadCount > 0

\* C10: on every successful extraction textKind is "article" if article text
\* was extracted; else "thread" if thread inclusion was requested and thread
\* assembly yielded at least one item; else "link" if the expanded post text
\* is mostly a link; else "tweet".
C10_TextKindPriority ==
    Extracted =>
        tweet.document.textKind =
            IF ArticleExtracted THEN "article"
            ELSE IF ThreadYielded THEN "thread"
            ELSE IF looksLikeMostlyLink(tweet.expandedText) THEN "link"
            ELSE "tweet"

\* an extraction with an article text and a thread of two posts, of a post
\* that is mostly a link, was answered with textKind "article"
C10_Witness ==
    /\ Extracted
    /\ ArticleExtracted
    /\ ThreadYielded
    /\ tweet.document.threadCount = 2
    /\ looksLikeMostlyLink(tweet.expandedText)
    /\ tweet.document.textKind = "article"

\* thread assembly ran and yielded an item
ThreadAssembled == tweet.threadRan /\ ThreadOf(tweet.items) # << >>

\* C11: on every successful extraction the returned text is the article text
\* if article extraction produced a non-empty text, otherwise the thread text
\* if thread assembly ran and yielded at least one item, otherwise the
\* link-expanded post text; and textKind is "article" exactly when the
\* returned text is the article text.
C11_TextPrecedence ==
    Extracted =>
        /\ tweet.document.text =
              IF ArticleExtracted /\ tweet.articleText.length > 0
              THEN [ from |-> "article", text |-> << >>, thread |-> << >>,
                     length |-> tweet.articleText.length ]
              ELSE IF ThreadAssembled
              THEN [ from |-> "thread", text |-> << >>,
                     thread |-> ThreadOf(tweet.items), length |-> 0 ]
              ELSE [ from |-> "post", text |-> tweet.expandedText,
                     thread |-> << >>, length |-> 0 ]
        /\ tweet.document.textKind = "article" <=> tweet.document.text.from = "article"

\* an extraction with an article text and an assembled thread returned the
\* article text
C11_Witness ==
    /\ Extracted
    /\ ArticleExtracted
    /\ ThreadAssembled
    /\ tweet.document.text.from = "article"
    /\ tweet.document.text.length = ARTICLE_MAX_LENGTH

\* C12: redirect resolution never propagates a failure: whatever the redirect
\* GET does (fails, is aborted after 9 seconds, answers), the request is not
\* answered with an error at that point, and a resolved URL (the final URL,
\* or the original URL on failure) is recorded.
C12_RedirectNeverFails ==
    [][ tweet.pc = "redirect" =>
          /\ tweet'.status # 500
          /\ tweet'.resolvedUrl \in FinalUrls \cup { getFirstHttpUrl(tweet.expandedText) }
          /\ tweet'.resolvedUrl # ""
      ]_vars

\* the article GET threw (network error, abort after 12 seconds, body read
\* error), had no success status or no HTML content type
FetchFailed(page) == page.throws \/ ~page.ok \/ ~page.html

\* C13: article extraction never fails the request: whatever the article
\* GET does, the request is not answered with an error at that point; a GET
\* that threw, had no success status or no HTML content type gives no
\* article text, and the extraction goes on to the thread or answers with
\* the thread or post text; a resolved URL that does not parse gives no
\* article text either.
C13_ArticleNeverFails ==
    [][ tweet.pc = "article" =>
          /\ tweet'.pc \in { "thread", "done" }
          /\ tweet'.status \in { 0, 200 }
          /\ FetchFailed(tweet'.page) =>
                /\ tweet'.articleText = NoArticle
                /\ tweet'.pc = "done" =>
                      tweet'.document.text.from \in { "thread", "post" }
          /\ ArticleRefused(UnparsedUrl)
      ]_vars

\* after an article GET without a success status the request went on to
\* thread assembly and was answered with the thread text
C13_Witness ==
    /\ Extracted
    /\ "article" \in Range(tweet.requests)
    /\ ~tweet.page.throws /\ ~tweet.page.ok
    /\ tweet.articleText = NoArticle
    /\ tweet.document.text.from = "thread"

\* C14: once a page request of thread assembly was answered with a
\* non-success status, the request is answered with an error that carries
\* that status and with no document, whatever the earlier pages and the
\* article extraction gave.
C14_PageFailureFailsImport ==
    tweet.upstream # 0 =>
        /\ tweet.upstream \in UpstreamErrors
        /\ tweet.pc = "done"
        /\ tweet.status = 500
        /\ tweet.document = NoDocument

\* the second page request failed after the first page gave items and after
\* an article text was extracted, and the request was answered with an error
C14_Witness ==
    /\ tweet.upstream = 503
    /\ Searches(tweet) = 2
    /\ Len(tweet.items) > 0
    /\ ~tweet.articleText.isNull
    /\ tweet.status = 500
    /\ tweet.document = NoDocument

IdsOf(items) == { items[k].id : k \in DOMAIN items }

\* C15: the result of thread assembly holds each collected id exactly once
\* and is ordered ascending by creation time, the items without a timestamp
\* (time 0) first.
C15_ThreadUniqueAndChronological ==
    LET thread == ThreadOf(tweet.items)
    IN  /\ IdsOf(thread) = IdsOf(tweet.items)
        /\ \A j, k \in DOMAIN thread : j < k =>
              /\ thread[j].id # thread[k].id
              /\ thread[j].at <= thread[k].at
        /\ Extracted /\ tweet.threadRan => tweet.document.threadCount = Len(thread)

\* the second page returned again an id of the first page, and an item
\* without a timestamp arrived after an item with one: the answered thread
\* holds two items, the one without a timestamp first
C15_Witness ==
    /\ Extracted
    /\ Searches(tweet) = 2
    /\ Len(tweet.items) = 3
    /\ tweet.items[1].at > 0
    /\ tweet.document.threadCount = 2
    /\ ThreadOf(tweet.items)[1].at = 0

InvalidSourceText(value) ==
    value.isString => value.text.core = 0 \/ value.text.core > 10000

\* C17: a GET /api/tweet whose locator holds no post id is answered with an
\* error and has made no outbound request; a POST /api/bookmarks whose
\* sourceText is missing, blank or over 10,000 characters after trimming is
\* answered 400, and the step that answers it changes no rate bucket, calls
\* no summarization and writes no bookmark.
C17_InputErrorsBeforeSideEffects ==
    [][ /\ tweet.pc = "idle" /\ tweet'.pc # "idle"
           /\ ~extractTweetId(tweet'.url).found =>
              /\ tweet'.pc = "done"
              /\ tweet'.status \in { 400, 422, 500 }
              /\ tweet'.requests = << >>
        /\ \A p \in 1..MaxPosts :
              posts[p].pc = "json" /\ posts'[p].read
              /\ InvalidSourceText(posts'[p].body) =>
                 /\ posts'[p].pc = "done"
                 /\ posts'[p].status = 400
                 /\ buckets' = buckets
                 /\ bookmarks' = bookmarks
      ]_vars

\* a POST with an over-long sourceText was answered 400 after another POST
\* of the same client had been counted, and a GET with a locator of four
\* digits after /status/ was answered 422 without an outbound request
C17_Witness ==
    /\ posts[1].status = 400
    /\ posts[1].body = String(Text(0, MAX_SOURCE_TEXT_LENGTH + 1, 0))
    /\ posts[2].pc = "summarize"
    /\ posts[2].request = posts[1].request
    /\ buckets[getClientIp(posts[1].request)].dayCount = 1
    /\ tweet.status = 422
    /\ Len(tweet.url) > 4
    /\ tweet.requests = << >>

\* extractTweetId was applied to the locator of the request
Parsed ==
    /\ tweet.pc # "idle"
    /\ tweet.status # 400
    /\ ~(tweet.status = 500 /\ tweet.requests = << >>)

AllDigits(s) == \A k \in DOMAIN s : s[k] \in Digits

\* s holds /status/ and then 5 digits or more at position i
StatusMatchAt(s, i) ==
    /\ i + 12 <= Len(s)
    /\ SubSeq(s, i, i + 7) = Status
    /\ AllDigits(SubSeq(s, i + 8, i + 12))

\* id is what the locator parser is to return for the string s
IsLocatorResult(s, id) ==
    IF AllDigits(s) /\ Len(s) \in 5..30
    THEN id = [ found |-> TRUE, id |-> s ]
    ELSE IF \E i \in DOMAIN s : StatusMatchAt(s, i)
    THEN LET i == CHOOSE j \in DOMAIN s :
                     StatusMatchAt(s, j) /\ \A k \in 1..(j - 1) : ~StatusMatchAt(s, k)
         IN  /\ id.found
             /\ \E n \in 5..30 :
                   /\ i + 7 + n <= Len(s)
                   /\ id.id = SubSeq(s, i + 8, i + 7 + n)
                   /\ n < 30 /\ i + 8 + n <= Len(s) => s[i + 8 + n] \notin Digits
             /\ AllDigits(id.id)
    ELSE id = [ found |-> FALSE, id |-> << >> ]

\* C18 as stated: the locator parser returns the input unchanged when it
\* consists of 5 to 30 decimal digits only; otherwise the digits of the
\* first /status/<5-30 digits> match; otherwise absence; and every result
\* that is not absent is a string of 5 to 30 decimal digits.
C18_LocatorParser ==
    Parsed =>
        /\ IsLocatorResult(tweet.url, tweet.tweetId)
        /\ tweet.tweetId.found =>
              AllDigits(tweet.tweetId.id) /\ Len(tweet.tweetId.id) \in 5..30

\* C18 amended: the same of the input with its leading and trailing
\* whitespace removed.
C18_LocatorParserOfTrimmedInput ==
    Parsed =>
        /\ IsLocatorResult(Trim(tweet.url), tweet.tweetId)
        /\ tweet.tweetId.found =>
              AllDigits(tweet.tweetId.id) /\ Len(tweet.tweetId.id) \in 5..30

\* of a locator with 31 digits after /status/ the parser returned the first
\* 30 digits
C18_Witness ==
    /\ Parsed
    /\ tweet.url = Status \o Repeat("7", 31)
    /\ tweet.tweetId = [ found |-> TRUE, id |-> Repeat("7", 30) ]

\* C19: an article text that was returned has 600 to 30,000 characters: a
\* page whose flattened text has fewer than 600 characters gives no article
\* text, a longer text is returned whole up to 30,000 characters and cut to
\* 30,000 characters beyond.
C19_ArticleLength ==
    [][ tweet.pc = "article" =>
          LET page == tweet'.page
              text == tweet'.articleText
          IN  /\ ~text.isNull => text.length >= 600 /\ text.length <= 30000
              /\ page.length < 600 => text.isNull
              /\ ~text.isNull =>
                    text.length = IF page.length > 30000 THEN 30000 ELSE page.length
      ]_vars

\* a page of 30,001 characters of text gave an article text of 30,000
\* characters, which the answer returned
C19_Witness ==
    /\ Extracted
    /\ tweet.page.length = 30001
    /\ tweet.articleText = [ isNull |-> FALSE, length |-> 30000 ]
    /\ tweet.document.text.length = 30000

\* h is the domain or a subdomain of it
DomainOrSubdomain(h, domain) == h = domain \/ EndsWith(h, << "." >> \o domain)

\* the host is x.com or twitter.com or a subdomain of one of them
PlatformHost(h) ==
    \/ DomainOrSubdomain(h, << "x", ".", "c", "o", "m" >>)
    \/ DomainOrSubdomain(h, << "t", "w", "i", "t", "t", "e", "r", ".", "c", "o", "m" >>)

\* C20: once the redirect is resolved, the article GET is issued exactly when
\* the host of the resolved URL is neither x.com nor twitter.com nor a
\* subdomain of one of them; a host that only ends with the characters of
\* such a domain is fetched.
C20_OnlyPlatformHostsRefused ==
    [][ tweet.pc = "redirect" /\ tweet'.resolvedUrl # "" =>
          ( tweet'.pc = "article" /\ tweet'.requests = Append(tweet.requests, "article") )
            <=> ~PlatformHost(Hostname(tweet'.resolvedUrl))
      ]_vars

(***************************************************************************)
(* Properties of stripHtmlToText.                                          *)
(***************************************************************************)
\* the text holds no "<", hence no tag
NoTags(s) == "<" \notin Range(s)

EntityNames == { "nbsp;", "amp;", "quot;", "#39;", "lt;", "gt;" }

\* the text holds none of the six entities
NoEntity(s) == \A k \in 1..(Len(s) - 1) : ~(s[k] = "&" /\ s[k + 1] \in EntityNames)

\* the runs of characters of s between its whitespace
RECURSIVE WordsOf(_)
WordsOf(s) ==
    IF s = << >> THEN << >>
    ELSE IF IsSpace(Head(s)) THEN WordsOf(Tail(s))
    ELSE LET rest == WordsOf(Tail(s))
         IN  IF Len(s) > 1 /\ ~IsSpace(s[2])
             THEN << << Head(s) >> \o Head(rest) >> \o Tail(rest)
             ELSE << << Head(s) >> >> \o rest

\* s is trimmed and its whitespace is collapsed: no blank before a newline,
\* no two blanks and no three newlines in a row
Collapsed(s) ==
    /\ s # << >> => ~IsSpace(s[1]) /\ ~IsSpace(s[Len(s)])
    /\ \A k \in 1..(Len(s) - 1) :
          /\ ~(Blank(s[k]) /\ s[k + 1] = "\n")
          /\ ~(Blank(s[k]) /\ Blank(s[k + 1]))
    /\ \A k \in 1..(Len(s) - 2) : ~(s[k] = "\n" /\ s[k + 1] = "\n" /\ s[k + 2] = "\n")

\* the first application gives the input trimmed and with its whitespace
\* collapsed, the second application changes nothing
PlainTextKept ==
    /\ markup.passes = 0 =>
          /\ WordsOf(markup'.text) = WordsOf(markup.input)
          /\ Collapsed(markup'.text)
    /\ markup.passes = 1 => markup'.text = markup.text

\* C21 as stated: for every input without tags the output of
\* stripHtmlToText is the trimmed input modulo whitespace collapsing, and
\* the function applied to its own output returns that output.
C21_IdempotentOnPlainText ==
    [][ NoTags(markup.input) => PlainTextKept ]_vars

\* C21 amended: the same for every input without tags and without any of
\* the six entities the function decodes.
C21_IdempotentOnPlainTextWithoutEntities ==
    [][ NoTags(markup.input) /\ NoEntity(markup.input) => PlainTextKept ]_vars

\* a text without tags and entities, with blanks before a newline and at
\* its ends, was collapsed by the first application and left as it was by
\* the second
C21_Witness ==
    /\ markup.passes = 2
    /\ markup.input = << " ", "a", "\t", "\n" >>
    /\ markup.text = << "a" >>

(***************************************************************************)
(* The outbound requests of GET /api/tweet.                                *)
(***************************************************************************)
\* the positions of the requests of one kind in the order of issue
Issued(kind) == { k \in DOMAIN tweet.requests : tweet.requests[k] = kind }

\* every request of kind a was issued before every request of kind b
AllBefore(a, b) == \A i \in Issued(a), j \in Issued(b) : i < j

\* C22: the redirect GET and the article GET are issued only when the
\* link-expanded post text is mostly a link, at most once each, the redirect
\* before the article GET and the article GET on the resolved URL, both after
\* the single post fetch and before any page request of the thread; when the
\* text is not mostly a link neither is issued and resolvedUrl is null.
C22_LinkRequestsOrder ==
    /\ Cardinality(Issued("post")) <= 1
    /\ Cardinality(Issued("redirect")) <= 1
    /\ Cardinality(Issued("article")) <= 1
    /\ Issued("redirect") # {} => looksLikeMostlyLink(tweet.expandedText)
    /\ Issued("article") # {} =>
          /\ looksLikeMostlyLink(tweet.expandedText)
          /\ Issued("redirect") # {}
          /\ tweet.resolvedUrl # ""
          /\ tweet.fetched = tweet.resolvedUrl
    /\ AllBefore("redirect", "article")
    /\ AllBefore("post", "redirect") /\ Issued("redirect") # {} => Issued("post") # {}
    /\ AllBefore("post", "article")
    /\ AllBefore("redirect", "search")
    /\ AllBefore("article", "search")
    /\ ~looksLikeMostlyLink(tweet.expandedText) =>
          /\ Issued("redirect") = {} /\ Issued("article") = {}
          /\ tweet.resolvedUrl = ""
          /\ Extracted => tweet.document.resolvedUrl = ""

\* a post that is mostly a link was fetched, its link resolved to another
\* URL, the article asked for at that URL, and then a page of the thread
C22_Witness ==
    /\ Extracted
    /\ tweet.requests = << "post", "redirect", "article", "search" >>
    /\ tweet.resolvedUrl # tweet.redirected
    /\ tweet.fetched = tweet.resolvedUrl

\* the caller asked for the thread and the post has both ids
ThreadWanted == tweet.includeThread /\ tweet.conversation /\ tweet.author

\* C23: thread assembly is run exactly when the caller requested thread
\* inclusion and the fetched post carries both a conversation id and an author
\* id; threadCount is non-null exactly when it ran and yielded at least one
\* item, and then is the number of deduplicated items; without thread
\* inclusion requested no search request is made.
C23_ThreadAssemblyCondition ==
    /\ tweet.threadRan => ThreadWanted
    /\ Issued("search") # {} => tweet.threadRan
    /\ ~tweet.includeThread => Issued("search") = {}
    /\ Extracted =>
          /\ tweet.threadRan <=> ThreadWanted
          /\ tweet.document.threadCount # 0 <=> ThreadAssembled
          /\ ThreadAssembled =>
                /\ tweet.document.threadCount = Len(ThreadOf(tweet.items))
                /\ tweet.document.threadCount = Cardinality(IdsOf(tweet.items))

\* thread assembly ran and collected the same id twice: threadCount counts it
\* once
C23_Witness ==
    /\ Extracted
    /\ ThreadWanted
    /\ Len(tweet.items) = 2
    /\ tweet.document.threadCount = 1

\* thread assembly was not asked for, the post has both ids, and the answer
\* carries no threadCount
C23_WitnessNotRequested ==
    /\ Extracted
    /\ ~tweet.includeThread /\ tweet.conversation /\ tweet.author
    /\ tweet.document.threadCount = 0

(***************************************************************************)
(* Termination of the paging loop.                                         *)
(***************************************************************************)
\* C24 as stated: the paging loop of thread assembly terminates whenever the
\* upstream answers each request, also when it keeps returning a
\* continuation token with pages that are empty or hold only items without
\* id or text: a request in the loop is answered in the end.
C24_PagingTerminates == (tweet.pc = "thread") ~> (tweet.pc = "done")

\* the loop asked for a further page after a page that added nothing
C24_Witness ==
    /\ tweet.pc = "thread"
    /\ tweet.nextToken
    /\ tweet.items = << >>
    /\ cursor = 2

(***************************************************************************)
(* The limiter and the two handlers of /api/bookmarks.                     *)
(***************************************************************************)
\* what the limiter says, in the state before the step, to the valid body
\* that request p has read in this step
VerdictFor(p) ==
    enforceLimits(buckets, posts[p].request,
                  TextLength(TextTrim(posts'[p].body.text)), now).result

\* in this step request p has read a valid body and the limiter refuses it
RejectedNow(p) ==
    /\ posts[p].pc = "json"
    /\ posts'[p].read
    /\ ~InvalidSourceText(posts'[p].body)
    /\ VerdictFor(p) # Granted

\* C25: a POST rejected by the limiter is answered 429 with the limiter's
\* reason and reaches neither summarization nor the storage write, and GET
\* /api/bookmarks neither reads nor changes a rate bucket.
C25_LimiterGuardsWritePathOnly ==
    [][ /\ \A p \in 1..MaxPosts :
              /\ RejectedNow(p) =>
                    /\ posts'[p].pc = "done"
                    /\ posts'[p].status = 429
                    /\ posts'[p].reason = VerdictFor(p)
                    /\ posts'[p].summary = ""
                    /\ bookmarks' = bookmarks
              /\ posts[p].status = 429 => posts'[p] = posts[p]
        /\ listing' # listing =>
              /\ buckets' = buckets
              /\ listing'.pc = "done" =>
                    \/ listing'.status = 500
                    \/ listing'.status = 200 /\ listing'.rows = Newest(bookmarks)
      ]_vars

\* one POST was stored, another was rejected by the limiter, and the
\* read-all request was answered with the stored row while the identity has
\* a bucket
C25_Witness ==
    /\ \E p \in 1..MaxPosts : posts[p].status = 429 /\ posts[p].reason # Granted
    /\ listing.pc = "done" /\ listing.status = 200 /\ Len(listing.rows) = 1
    /\ buckets # << >>

(***************************************************************************)
(* The counters the bucket map holds.                                      *)
(***************************************************************************)
\* C26 as stated: in every reachable state every bucket satisfies
\* minuteCount <= RPM, dayCount <= DAILY and dayChars <= DAILY_CHARS, for
\* every value of the three ceilings, ceilings smaller than a single request
\* included.
C26_BucketsWithinCeilings ==
    \A ip \in DOMAIN buckets :
        /\ buckets[ip].minuteCount <= RPM
        /\ buckets[ip].dayCount <= DAILY
        /\ buckets[ip].dayChars <= DAILY_CHARS

\* C26 amended: every bucket satisfies minuteCount <= max(RPM, 1) and
\* dayCount <= max(DAILY, 1), and dayChars <= DAILY_CHARS unless the bucket
\* holds the day counters of a single request (dayCount = 1) of more than
\* DAILY_CHARS characters; a counter above its ceiling is one written by the
\* call that created the bucket, which is accepted unconditionally.
C26_BucketsWithinCeilingsButFirstCall ==
    \A ip \in DOMAIN buckets :
        /\ buckets[ip].minuteCount <= IF RPM < 1 THEN 1 ELSE RPM
        /\ buckets[ip].dayCount <= IF DAILY < 1 THEN 1 ELSE DAILY
        /\ \/ buckets[ip].dayChars <= DAILY_CHARS
           \/ /\ buckets[ip].dayCount = 1
              /\ buckets[ip].dayChars <= MaxLen

\* a bucket was filled up to all three ceilings by calls after the one that
\* created it
C26_Witness ==
    /\ RPM = 2 /\ DAILY = 3 /\ DAILY_CHARS = 3
    /\ \E ip \in DOMAIN buckets :
          /\ buckets[ip].minuteCount = 2
          /\ buckets[ip].dayCount = 3
          /\ buckets[ip].dayChars = 3

(***************************************************************************)
(* What POST /api/bookmarks stores.                                        *)
(***************************************************************************)
\* a row holds a trimmed, non-empty sourceText of at most 10,000 characters
\* and a non-empty summary
WellFormedRow(row) ==
    /\ row.sourceText.lead = 0 /\ row.sourceText.trail = 0
    /\ row.sourceText.core > 0
    /\ TextLength(row.sourceText) <= 10000
    /\ row.summary # ""

\* C27: POST /api/bookmarks writes a bookmark only after, in this order,
\* validation passed, the limiter accepted and summarization returned a
\* summary; if summarization throws nothing is stored and the answer is 500;
\* so every stored bookmark has a trimmed, non-empty sourceText of at most
\* 10,000 characters and a non-empty summary.
C27_StoredAfterValidationLimiterSummary ==
    [][ /\ \A p \in 1..MaxPosts :
              \* summarization starts in the step that validated the body and
              \* in which the limiter accepted
              /\ posts'[p].pc = "summarize" /\ posts[p].pc # "summarize" =>
                    /\ posts[p].pc = "json"
                    /\ ~InvalidSourceText(posts'[p].body)
                    /\ posts'[p].sourceText = TextTrim(posts'[p].body.text)
                    /\ VerdictFor(p) = Granted
              \* the write starts when summarization has returned
              /\ posts'[p].pc = "create" /\ posts[p].pc # "create" =>
                    /\ posts[p].pc = "summarize"
                    /\ posts'[p].summary # ""
                    /\ posts'[p].sourceText = posts[p].sourceText
              \* summarization ends with a summary or with the answer 500
              /\ posts[p].pc = "summarize" /\ posts'[p].pc = "done" =>
                    posts'[p].status = 500 /\ bookmarks' = bookmarks
              /\ posts[p].pc = "done" => posts'[p] = posts[p]
              /\ posts'[p].status = 201 /\ posts[p].status # 201 =>
                    /\ posts[p].pc = "create"
                    /\ bookmarks' = Append(bookmarks,
                                           [ sourceText |-> posts[p].sourceText,
                                             summary    |-> posts[p].summary ])
        /\ bookmarks' # bookmarks =>
              \E p \in 1..MaxPosts : posts'[p].status = 201 /\ posts[p].status # 201
        /\ \A k \in DOMAIN bookmarks' : WellFormedRow(bookmarks'[k])
      ]_vars

\* a text of 10,000 characters after trimming was stored with the summary
\* that stands for an empty output of the model
C27_Witness ==
    \E k \in DOMAIN bookmarks :
        /\ bookmarks[k].sourceText = Text(0, 10000, 0)
        /\ bookmarks[k].summary = NoSummaryGenerated
        /\ \E p \in 1..MaxPosts :
              /\ posts[p].status = 201
              /\ posts[p].body = String(Text(1, 10000, 0))

(***************************************************************************)
(* BookmarkCT as a log.                                                    *)
(***************************************************************************)
\* the last element of a non-empty sequence
Last(q) == q[Len(q)]

\* C28: BookmarkCT is an append-only log: count() is the number of
\* createBookmark calls that did not revert; the k-th successful call (k from
\* 0) stores owner = msg.sender and emits BookmarkCreated with id = k; a
\* stored bookmark is never modified or removed; getBookmark(id) succeeds
\* exactly when id < count(); and createBookmark with a preview of more than
\* 200 bytes reverts and leaves count() and the stored bookmarks unchanged.
C28_AppendOnlyLog ==
    [][ /\ count(chain') = chain'.created
        /\ \A k \in DOMAIN chain.bookmarks :
              /\ k \in DOMAIN chain'.bookmarks
              /\ chain'.bookmarks[k] = chain.bookmarks[k]
        /\ \A k \in DOMAIN chain.events :
              /\ k \in DOMAIN chain'.events
              /\ chain'.events[k] = chain.events[k]
        /\ tx'.kind = "createBookmark" =>
              IF Utf8Length(tx'.summaryPreview) > 200
              THEN /\ tx'.reverted
                   /\ count(chain') = count(chain)
                   /\ chain'.bookmarks = chain.bookmarks
                   /\ chain'.events = chain.events
              ELSE /\ ~tx'.reverted
                   /\ count(chain') = count(chain) + 1
                   /\ Last(chain'.bookmarks).owner = tx'.sender
                   /\ Last(chain'.bookmarks).summaryPreview = tx'.summaryPreview
                   /\ Len(chain'.events) = Len(chain.events) + 1
                   /\ Last(chain'.events).id = chain.created
                   /\ Last(chain'.events).owner = tx'.sender
                   /\ getBookmark(chain', chain.created).row = Last(chain'.bookmarks)
        /\ tx'.kind = "getBookmark" =>
              /\ chain' = chain
              /\ ~tx'.reverted <=> tx'.id < count(chain)
              /\ ~tx'.reverted => tx'.row = chain.bookmarks[tx'.id + 1]
        /\ tx'.kind = "count" =>
              /\ chain' = chain
              /\ tx'.count = chain.created
      ]_vars

\* after two bookmarks of two senders, a createBookmark with a preview of 67
\* characters and 201 bytes has reverted
C28_Witness ==
    /\ tx.kind = "createBookmark"
    /\ tx.reverted
    /\ tx.summaryPreview = << Run(67, 3) >>
    /\ count(chain) = 2
    /\ chain.bookmarks[1].owner # chain.bookmarks[2].owner
    /\ chain.events[2].id = 1

(***************************************************************************)
(* The on-chain save of the page.                                          *)
(***************************************************************************)
\* C29 as stated: every createBookmark transaction that handleSaveOnchain
\* submits has a summary preview of at most 200 bytes, for every stored
\* summary, so that no on-chain save reverts with "Summary preview too
\* long".
C29_PreviewWithinContractLimit ==
    /\ \A b \in Saved :
          ui.saves[b].pc = "write" => Utf8Length(ui.saves[b].summaryPreview) <= 200
    /\ \A k \in DOMAIN ui.pool : Utf8Length(ui.pool[k].summaryPreview) <= 200
    /\ tx.kind = "createBookmark" => ~tx.reverted

\* the transaction of a save has reverted for a preview of 200 characters
\* and 202 bytes, and the page shows the save as a success
C29_Witness ==
    /\ tx.kind = "createBookmark"
    /\ tx.reverted
    /\ tx.summaryPreview = << Run(1, 3), Run(199, 1) >>
    /\ \E b \in Saved : /\ ui.txStates[b].status = "success"
                          /\ ui.txStates[b].hash = tx.id

\* the changes of the status of a save
StatusStep(from, to) ==
    \/ to = from
    \/ from \in { "absent", "success", "error" } /\ to = "wallet"
    \/ from = "wallet" /\ to \in { "pending", "error" }
    \/ from = "pending" /\ to \in { "success", "error" }

InFlightSave(b) == ui.txStates[b].status \in { "wallet", "pending" }

\* C30: for each bookmark the save status changes only along
\* absent/success/error -> wallet -> pending -> success, or wallet/pending ->
\* error; pending and success carry the transaction hash; every started save
\* reaches success or error once the wallet and the receipt wait answer; and
\* while the status is wallet or pending the Save button is disabled, so that
\* no second transaction of the bookmark is started while one is in flight.
C30_SaveStatusMachine ==
    /\ [][ \A b \in Saved :
              /\ StatusStep(ui.txStates[b].status, ui'.txStates[b].status)
              /\ InFlightSave(b) =>
                    /\ ui'.saves[b].pc = "write" => ui.saves[b].pc = "write"
                    /\ ui'.saves[b].hash \notin { 0, ui.saves[b].hash } =>
                          ui.txStates[b].status = "wallet" /\ ui.saves[b].hash = 0
          ]_vars
    /\ [](\A b \in Saved :
              /\ ui.txStates[b].status \in { "pending", "success" } =>
                    ui.txStates[b].hash # 0
              /\ InFlightSave(b) => Disabled(b)
              /\ InFlightSave(b) <=> ui.saves[b].pc # "idle")
    /\ \A b \in Saved :
          InFlightSave(b) ~> (ui.txStates[b].status \in { "success", "error" })

\* after a save that ended in an error the bookmark was saved again, and its
\* second transaction is pending while the other bookmark waits for the wallet
C30_Witness ==
    /\ ui.txStates[1].status = "pending"
    /\ ui.txStates[1].hash = 2
    /\ ui.txStates[2].status = "wallet"
    /\ ui.saves[1].pc = "wait"

====
